---- MODULE Spec2Model ----
(***************************************************************************)
(* Model of the validation engine of data-alchemist-configurator           *)
(* (src/src/lib/validations/validator.ts): a dataset of clients, workers   *)
(* and tasks, the ten validation rules, and validateDataSet, which merges  *)
(* the rules' findings and partitions them into errors and warnings.       *)
(*                                                                         *)
(* Findings are records with the fields of ValidationError.  Template      *)
(* literals are modelled by string concatenation, so ids and messages are  *)
(* the strings the code builds.  Sequences are 1-based: the JavaScript     *)
(* index of the element at position i is i - 1.                            *)
(***************************************************************************)
EXTENDS Integers, Sequences, FiniteSets, TLC

VARIABLES
  data,    \* the dataset snapshot: [clients, workers, tasks]
  result,  \* the ValidationResult of the last validation of data
  prev,    \* <<>>, or <<[data, result, worker]>>: the dataset and report of the
           \* first call and the worker changed since
  pc,      \* "ready" before validateDataSet has run on data, "done" after it
           \* has returned a report, "thrown" after it has thrown
  \* the state of the workflow page (HomePage) and of its grids
  dataSet,           \* the dataset on display
  validationResult,  \* the report on display
  currentStep,       \* "upload", "validate", "rules" or "export"
  uploading,         \* the batches of files whose handleFileUpload is awaiting
  editingCell,       \* of each DataGrid: <<>> (null) or <<[rowIndex, field]>>,
                     \* rowIndex 0-based
  searchTerm,        \* of each DataGrid: the text of its search box
  shownAtStart,      \* of each DataGrid: the position in its collection of
                     \* the entity that the row showed when editing started
                     \* (0: not editing, or the dataset was replaced since)
  \* the state of a run of the record normalizer (parseFile)
  fileType,          \* "clients" or "tasks": the entityType of the file
  rawData,           \* the rows read from the file, a cell text per header
  parsed,            \* the ParseResult returned: its data and its errors
  parsedBy           \* "none" before parseFile has returned, then which of
                     \* the two parseFile of the repository has run

engineVars == <<data, result, prev, pc>>

pageVars ==
  <<dataSet, validationResult, currentStep, uploading, editingCell, searchTerm,
    shownAtStart>>

normalizerVars == <<fileType, rawData, parsed, parsedBy>>

vars == <<engineVars, pageVars, normalizerVars>>

(***************************************************************************)
(* Bounds of the model.                                                    *)
(***************************************************************************)
MaxClients == 3
MaxWorkers == 2
MaxTasks == 2

(***************************************************************************)
(* Generic helpers for arrays (Array.prototype.map/filter/flat, Map).      *)
(***************************************************************************)
RECURSIVE Concat(_)
\* the concatenation of a sequence of sequences (repeated push(...xs))
Concat(ss) == IF ss = <<>> THEN <<>> ELSE Head(ss) \o Concat(Tail(ss))

\* xs.filter(x => x.type === t)
FilterByType(xs, t) == SelectSeq(xs, LAMBDA e : e.type = t)

\* xs.includes(x)
Includes(xs, x) == \E i \in 1..Len(xs) : xs[i] = x

\* An insertion-ordered Map is a sequence of [key, val] entries.
MapHas(m, k) == \E i \in 1..Len(m) : m[i].key = k

\* m.get(k) || 0
MapGetOrZero(m, k) ==
  IF MapHas(m, k) THEN m[CHOOSE i \in 1..Len(m) : m[i].key = k].val ELSE 0

\* m.set(k, v): an existing key keeps its position
MapSet(m, k, v) ==
  IF MapHas(m, k)
    THEN [i \in 1..Len(m) |-> IF m[i].key = k THEN [key |-> k, val |-> v] ELSE m[i]]
    ELSE Append(m, [key |-> k, val |-> v])

RECURSIVE MapAddAll(_, _)
\* for each contribution c in order: m.set(c.key, (m.get(c.key) || 0) + c.val)
MapAddAll(m, cs) ==
  IF cs = <<>> THEN m
  ELSE MapAddAll(MapSet(m, Head(cs).key, MapGetOrZero(m, Head(cs).key) + Head(cs).val),
                 Tail(cs))

(***************************************************************************)
(* Rule 1: missing required columns.                                       *)
(***************************************************************************)
requiredClientFields == <<"ClientID", "ClientName", "PriorityLevel">>
requiredWorkerFields == <<"WorkerID", "WorkerName", "Skills", "AvailableSlots">>
requiredTaskFields == <<"TaskID", "TaskName", "Duration", "RequiredSkills">>

\* variant: only the falsy test, without the test for an empty array
FieldMissing_FalsyOnly(e, field) ==
  CASE field \notin DOMAIN e -> TRUE
    [] field \in {"PriorityLevel", "Duration"} -> e[field] = 0
    [] field \in {"Skills", "AvailableSlots", "RequiredSkills"} -> FALSE
    [] OTHER -> e[field] = ""

\* !e[field] || (Array.isArray(e[field]) && e[field].length === 0)
\* a property the entity does not have reads as undefined, which is falsy;
\* a string is falsy when empty, a number when 0; an array is never falsy
FieldMissing(e, field) ==
  CASE field \notin DOMAIN e -> TRUE
    [] field \in {"PriorityLevel", "Duration"} -> e[field] = 0
    [] field \in {"Skills", "AvailableSlots", "RequiredSkills"} -> Len(e[field]) = 0
    [] OTHER -> e[field] = ""

\* id || `Row ${index + 1}`, for the entity at (1-based) position i
IdOrRow(id, i) == IF id = "" THEN "Row " \o ToString(i) ELSE id

MissingFinding(etype, field, i, id) ==
  [id |-> "missing-" \o etype \o "-" \o field \o "-" \o ToString(i - 1),
   type |-> "error",
   message |-> "Missing required field: " \o field,
   field |-> field,
   entityType |-> etype,
   entityId |-> IdOrRow(id, i),
   severity |-> "high"]

MissingOf(es, fields, etype, idField) ==
  Concat([i \in 1..Len(es) |->
    Concat([j \in 1..Len(fields) |->
      IF FieldMissing(es[i], fields[j])
        THEN <<MissingFinding(etype, fields[j], i, es[i][idField])>>
        ELSE <<>>])])

validateMissingRequiredColumns(d) ==
  MissingOf(d.clients, requiredClientFields, "client", "ClientID")
    \o MissingOf(d.workers, requiredWorkerFields, "worker", "WorkerID")
    \o MissingOf(d.tasks, requiredTaskFields, "task", "TaskID")

(***************************************************************************)
(* Rule 2: duplicate IDs.                                                  *)
(***************************************************************************)
DuplicateFinding(etype, idField, id) ==
  [id |-> "duplicate-" \o etype \o "-" \o id,
   type |-> "error",
   message |-> "Duplicate " \o idField \o ": " \o id,
   field |-> idField,
   entityType |-> etype,
   entityId |-> id,
   severity |-> "high"]

\* variant: an ID is flagged once, at its second occurrence only
DuplicatesOf_OncePerID(es, etype, idField) ==
  Concat([i \in 1..Len(es) |->
    IF es[i][idField] # ""
         /\ Cardinality({j \in 1..(i - 1) : es[j][idField] = es[i][idField]}) = 1
      THEN <<DuplicateFinding(etype, idField, es[i][idField])>>
      ELSE <<>>])

\* variant: an empty ID is looked up and remembered like any other
DuplicatesOf_EmptyCounted(es, etype, idField) ==
  Concat([i \in 1..Len(es) |->
    IF \E j \in 1..(i - 1) : es[j][idField] = es[i][idField]
      THEN <<DuplicateFinding(etype, idField, es[i][idField])>>
      ELSE <<>>])

\* The Map of seen IDs holds exactly the truthy IDs of the earlier entities,
\* so has(id) at position i is: some earlier entity has the same ID.
DuplicatesOf(es, etype, idField) ==
  Concat([i \in 1..Len(es) |->
    IF es[i][idField] # "" /\ \E j \in 1..(i - 1) : es[j][idField] = es[i][idField]
      THEN <<DuplicateFinding(etype, idField, es[i][idField])>>
      ELSE <<>>])

validateDuplicateIDs(d) ==
  DuplicatesOf(d.clients, "client", "ClientID")
    \o DuplicatesOf(d.workers, "worker", "WorkerID")
    \o DuplicatesOf(d.tasks, "task", "TaskID")

(***************************************************************************)
(* Rule 3: malformed lists.                                                *)
(***************************************************************************)
\* NaN, which is also what isNaN makes of a non-numeric entry; it is
\* represented by an integer that no list of the model uses as a number
NaN == -999

\* `${n}` for a number
NumberToString(n) == IF n = NaN THEN "NaN" ELSE ToString(n)

\* variant: the lower limit is 0
SlotMalformed_ZeroAllowed(slot) == slot = NaN \/ slot < 0

\* isNaN(slot) || slot < 1
SlotMalformed(slot) == slot = NaN \/ slot < 1

validateMalformedLists(d) ==
  Concat([i \in 1..Len(d.workers) |->
    Concat([j \in 1..Len(d.workers[i].AvailableSlots) |->
      IF SlotMalformed(d.workers[i].AvailableSlots[j])
        THEN <<[id |-> "malformed-slots-" \o d.workers[i].WorkerID,
                type |-> "error",
                message |-> "Invalid AvailableSlot value: "
                              \o NumberToString(d.workers[i].AvailableSlots[j])
                              \o ". Must be positive numbers.",
                field |-> "AvailableSlots",
                entityType |-> "worker",
                entityId |-> d.workers[i].WorkerID,
                severity |-> "medium"]>>
        ELSE <<>>])])

(***************************************************************************)
(* Rule 4: out-of-range values.                                            *)
(***************************************************************************)
\* variant: the upper limit is excluded
PriorityOutOfRange_UpperExcluded(p) == p < 1 \/ p >= 5

PriorityOutOfRange(p) == p < 1 \/ p > 5

DurationOutOfRange(dur) == dur < 1

validateOutOfRangeValues(d) ==
  Concat([i \in 1..Len(d.clients) |->
    IF PriorityOutOfRange(d.clients[i].PriorityLevel)
      THEN <<[id |-> "priority-range-" \o d.clients[i].ClientID,
              type |-> "error",
              message |-> "PriorityLevel must be between 1-5, got: "
                            \o ToString(d.clients[i].PriorityLevel),
              field |-> "PriorityLevel",
              entityType |-> "client",
              entityId |-> d.clients[i].ClientID,
              severity |-> "medium"]>>
      ELSE <<>>])
  \o
  Concat([i \in 1..Len(d.tasks) |->
    IF DurationOutOfRange(d.tasks[i].Duration)
      THEN <<[id |-> "duration-range-" \o d.tasks[i].TaskID,
              type |-> "error",
              message |-> "Duration must be at least 1, got: "
                            \o ToString(d.tasks[i].Duration),
              field |-> "Duration",
              entityType |-> "task",
              entityId |-> d.tasks[i].TaskID,
              severity |-> "medium"]>>
      ELSE <<>>])

(***************************************************************************)
(* Rule 5: broken JSON.  The try block only tests typeof and cannot throw, *)
(* so the catch block that would push a finding is never entered.          *)
(***************************************************************************)
\* typeof a === 'object' && a !== null, with an empty body: no value of
\* AttributesJSON makes the test throw
AttributesTestThrows(a) == FALSE

validateBrokenJSON(d) ==
  Concat([i \in 1..Len(d.clients) |->
    IF AttributesTestThrows(d.clients[i].AttributesJSON)
      THEN <<[id |-> "broken-json-" \o d.clients[i].ClientID,
              type |-> "error",
              message |-> "Invalid JSON in AttributesJSON",
              field |-> "AttributesJSON",
              entityType |-> "client",
              entityId |-> d.clients[i].ClientID,
              severity |-> "low"]>>
      ELSE <<>>])

(***************************************************************************)
(* Rule 6: unknown references.                                             *)
(***************************************************************************)
\* variant: the last task is left out of the set
TaskIDSet_LastLeftOut(d) == {d.tasks[i].TaskID : i \in 1..(Len(d.tasks) - 1)}

\* new Set(data.tasks.map(task => task.TaskID))
TaskIDSet(d) == {d.tasks[i].TaskID : i \in 1..Len(d.tasks)}

validateUnknownReferences(d) ==
  Concat([i \in 1..Len(d.clients) |->
    Concat([j \in 1..Len(d.clients[i].RequestedTaskIDs) |->
      IF d.clients[i].RequestedTaskIDs[j] \notin TaskIDSet(d)
        THEN <<[id |-> "unknown-task-" \o d.clients[i].ClientID \o "-"
                         \o d.clients[i].RequestedTaskIDs[j],
                type |-> "error",
                message |-> "Client references unknown TaskID: "
                              \o d.clients[i].RequestedTaskIDs[j],
                field |-> "RequestedTaskIDs",
                entityType |-> "client",
                entityId |-> d.clients[i].ClientID,
                severity |-> "high"]>>
        ELSE <<>>])])

(***************************************************************************)
(* Rule 7 (numbered 9 in the source): overloaded workers.                  *)
(***************************************************************************)
\* variant: <= in place of <
Overloaded_AtMost(worker) == Len(worker.AvailableSlots) <= worker.MaxLoadPerPhase

\* worker.AvailableSlots.length < worker.MaxLoadPerPhase
Overloaded(worker) == Len(worker.AvailableSlots) < worker.MaxLoadPerPhase

validateOverloadedWorkers(d) ==
  Concat([i \in 1..Len(d.workers) |->
    IF Overloaded(d.workers[i])
      THEN <<[id |-> "overloaded-worker-" \o d.workers[i].WorkerID,
              type |-> "warning",
              message |-> "Worker has " \o ToString(Len(d.workers[i].AvailableSlots))
                            \o " available slots but MaxLoadPerPhase is "
                            \o ToString(d.workers[i].MaxLoadPerPhase),
              field |-> "MaxLoadPerPhase",
              entityType |-> "worker",
              entityId |-> d.workers[i].WorkerID,
              severity |-> "medium"]>>
      ELSE <<>>])

(***************************************************************************)
(* Rule 8 (numbered 10 in the source): phase-slot saturation.              *)
(***************************************************************************)
\* the Map built by the nested forEach over tasks and their PreferredPhases
phaseDemand(d) ==
  MapAddAll(<<>>,
    Concat([i \in 1..Len(d.tasks) |->
      [j \in 1..Len(d.tasks[i].PreferredPhases) |->
        [key |-> d.tasks[i].PreferredPhases[j], val |-> d.tasks[i].Duration]]]))

\* the Map built by the nested forEach over workers and their AvailableSlots
phaseSupply(d) ==
  MapAddAll(<<>>,
    Concat([i \in 1..Len(d.workers) |->
      [j \in 1..Len(d.workers[i].AvailableSlots) |->
        [key |-> d.workers[i].AvailableSlots[j], val |-> d.workers[i].MaxLoadPerPhase]]]))

Saturated(demand, supply) == demand > supply

\* variant: the severity of the other warnings
SaturationFinding_Medium(phase, demand, supply) ==
  [id |-> "phase-saturation-" \o ToString(phase),
   type |-> "warning",
   message |-> "Phase " \o ToString(phase) \o " is oversaturated: demand "
                 \o ToString(demand) \o " > supply " \o ToString(supply),
   entityType |-> "task",
   entityId |-> "Phase " \o ToString(phase),
   severity |-> "medium"]

\* the finding of a saturated phase has no field
SaturationFinding(phase, demand, supply) ==
  [id |-> "phase-saturation-" \o ToString(phase),
   type |-> "warning",
   message |-> "Phase " \o ToString(phase) \o " is oversaturated: demand "
                 \o ToString(demand) \o " > supply " \o ToString(supply),
   entityType |-> "task",
   entityId |-> "Phase " \o ToString(phase),
   severity |-> "high"]

validatePhaseSlotSaturation(d) ==
  LET dm == phaseDemand(d)
      sp == phaseSupply(d)
  IN Concat([k \in 1..Len(dm) |->
       IF Saturated(dm[k].val, MapGetOrZero(sp, dm[k].key))
         THEN <<SaturationFinding(dm[k].key, dm[k].val, MapGetOrZero(sp, dm[k].key))>>
         ELSE <<>>])

(***************************************************************************)
(* Rule 9 (numbered 11 in the source): skill-coverage matrix.              *)
(***************************************************************************)
\* the Set filled from every worker's Skills
availableSkills(d) ==
  UNION {{d.workers[i].Skills[j] : j \in 1..Len(d.workers[i].Skills)} :
           i \in 1..Len(d.workers)}

validateSkillCoverageMatrix(d) ==
  Concat([i \in 1..Len(d.tasks) |->
    Concat([j \in 1..Len(d.tasks[i].RequiredSkills) |->
      IF d.tasks[i].RequiredSkills[j] \notin availableSkills(d)
        THEN <<[id |-> "missing-skill-" \o d.tasks[i].TaskID \o "-"
                         \o d.tasks[i].RequiredSkills[j],
                type |-> "error",
                message |-> "No worker has required skill: "
                              \o d.tasks[i].RequiredSkills[j],
                field |-> "RequiredSkills",
                entityType |-> "task",
                entityId |-> d.tasks[i].TaskID,
                severity |-> "high"]>>
        ELSE <<>>])])

(***************************************************************************)
(* Rule 10 (numbered 12 in the source): max-concurrency feasibility.       *)
(***************************************************************************)
\* variant: some() in place of every()
Qualified_SomeSkill(worker, task) ==
  \E j \in 1..Len(task.RequiredSkills) : Includes(worker.Skills, task.RequiredSkills[j])

\* task.RequiredSkills.every(skill => worker.Skills.includes(skill))
Qualified(worker, task) ==
  \A j \in 1..Len(task.RequiredSkills) : Includes(worker.Skills, task.RequiredSkills[j])

\* data.workers.filter(...).length
qualifiedWorkers(d, task) ==
  Len(SelectSeq(d.workers, LAMBDA w : Qualified(w, task)))

validateMaxConcurrencyFeasibility(d) ==
  Concat([i \in 1..Len(d.tasks) |->
    IF d.tasks[i].MaxConcurrent > qualifiedWorkers(d, d.tasks[i])
      THEN <<[id |-> "concurrency-infeasible-" \o d.tasks[i].TaskID,
              type |-> "warning",
              message |-> "MaxConcurrent (" \o ToString(d.tasks[i].MaxConcurrent)
                            \o ") exceeds qualified workers ("
                            \o ToString(qualifiedWorkers(d, d.tasks[i])) \o ")",
              field |-> "MaxConcurrent",
              entityType |-> "task",
              entityId |-> d.tasks[i].TaskID,
              severity |-> "medium"]>>
      ELSE <<>>])

(***************************************************************************)
(* validateDataSet: run the ten rules, partition by type.                  *)
(***************************************************************************)
\* variant: the push of the last rule's findings is forgotten
allFindings_LastRuleDropped(d) ==
  validateMissingRequiredColumns(d)
    \o validateDuplicateIDs(d)
    \o validateMalformedLists(d)
    \o validateOutOfRangeValues(d)
    \o validateBrokenJSON(d)
    \o validateUnknownReferences(d)
    \o validateOverloadedWorkers(d)
    \o validatePhaseSlotSaturation(d)
    \o validateSkillCoverageMatrix(d)

\* variant: the duplicate-ID rule runs before the missing-field rule
allFindings_DuplicatesFirst(d) ==
  validateDuplicateIDs(d)
    \o validateMissingRequiredColumns(d)
    \o validateMalformedLists(d)
    \o validateOutOfRangeValues(d)
    \o validateBrokenJSON(d)
    \o validateUnknownReferences(d)
    \o validateOverloadedWorkers(d)
    \o validatePhaseSlotSaturation(d)
    \o validateSkillCoverageMatrix(d)
    \o validateMaxConcurrencyFeasibility(d)

\* the local array `errors` after the ten push(...) calls
allFindings(d) ==
  validateMissingRequiredColumns(d)
    \o validateDuplicateIDs(d)
    \o validateMalformedLists(d)
    \o validateOutOfRangeValues(d)
    \o validateBrokenJSON(d)
    \o validateUnknownReferences(d)
    \o validateOverloadedWorkers(d)
    \o validatePhaseSlotSaturation(d)
    \o validateSkillCoverageMatrix(d)
    \o validateMaxConcurrencyFeasibility(d)

\* some entity of es does not have the property field
SomeWithout(es, field) == \E i \in 1..Len(es) : field \notin DOMAIN es[i]

\* A rule calls forEach on a list property without a test, so the call
\* throws a TypeError when the property is undefined, and nothing catches it:
\*   worker.AvailableSlots.forEach     (malformed lists, saturation)
\*   client.RequestedTaskIDs.forEach   (unknown references)
\*   task.PreferredPhases.forEach      (saturation)
\*   worker.Skills.forEach, task.RequiredSkills.forEach  (skill coverage)
\* The reads of AvailableSlots.length (overloaded workers) and of
\* RequiredSkills.every and Skills.includes (concurrency) come after these.
Throws(d) ==
  \/ SomeWithout(d.workers, "AvailableSlots")
  \/ SomeWithout(d.clients, "RequestedTaskIDs")
  \/ SomeWithout(d.tasks, "PreferredPhases")
  \/ SomeWithout(d.workers, "Skills")
  \/ SomeWithout(d.tasks, "RequiredSkills")

actualErrors(fs) == FilterByType(fs, "error")

warningsOf(fs) == FilterByType(fs, "warning")

\* variant: isValid tests the merged array instead of the filtered errors
BuildResult_AllFindings(fs) ==
  [isValid |-> Len(fs) = 0,
   errors |-> actualErrors(fs),
   warnings |-> warningsOf(fs)]

\* the returned object, built from the merged findings
BuildResult(fs) ==
  [isValid |-> Len(actualErrors(fs)) = 0,
   errors |-> actualErrors(fs),
   warnings |-> warningsOf(fs)]

validateDataSet(d) == BuildResult(allFindings(d))

(***************************************************************************)
(* Entities (src/src/types/index.ts) and the datasets of the model.        *)
(***************************************************************************)
\* AttributesJSON holds the kind of value in the property: "object" for a
\* key-to-value mapping, "array", "string" or "number" for the other values
Client(id, priority, requested) ==
  [ClientID |-> id, ClientName |-> "Acme", PriorityLevel |-> priority,
   RequestedTaskIDs |-> requested, GroupTag |-> "G", AttributesJSON |-> "object"]

Worker(id, skills, slots, load) ==
  [WorkerID |-> id, WorkerName |-> "Ann", Skills |-> skills,
   AvailableSlots |-> slots, MaxLoadPerPhase |-> load,
   WorkerGroup |-> "G", QualificationLevel |-> "Q"]

Task(id, duration, skills, phases, maxConcurrent) ==
  [TaskID |-> id, TaskName |-> "Job", Category |-> "K", Duration |-> duration,
   RequiredSkills |-> skills, PreferredPhases |-> phases,
   MaxConcurrent |-> maxConcurrent]

DataSet(cs, ws, ts) == [clients |-> cs, workers |-> ws, tasks |-> ts]

\* all sequences over S of length at most n
SeqsUpTo(S, n) == UNION {[1..k -> S] : k \in 0..n}

\* the values that the fields of the model's datasets range over
ClientIDs == {"", "C1", "C2"}
WorkerIDs == {"", "W1", "W2"}
TaskIDs == {"", "T1", "T2"}
RequestLists == {<<>>, <<"T1">>, <<"T9">>, <<"T1", "T9">>, <<"T9", "T9">>}
Priorities == {0, 1, 5, 7}
Durations == {-1, 0, 1, 2}
SkillLists == {<<>>, <<"a">>, <<"b">>, <<"a", "b">>}
RequiredLists == {<<>>, <<"a">>, <<"c">>, <<"a", "c">>, <<"c", "c">>}
PhaseLists == {<<>>, <<2>>, <<1, 2>>, <<2, 2>>}
SlotLists == {<<2>>, <<1, 2>>, <<3>>, <<2, 2>>}
Loads == {1, 6, 10}
AttributeKinds == {"object", "array", "string", "number"}

\* datasets that mix entities without findings with entities that trigger
\* the rules: errors only, warnings only, both, or neither
MixedClients ==
  {Client("C1", 3, <<"T1">>), Client("C2", 7, <<"T9">>), Client("", 0, <<>>)}

MixedWorkers ==
  {Worker("W1", <<"a">>, <<1, 2>>, 2), Worker("W2", <<"b">>, <<0>>, 6),
   Worker("W1", <<"a", "b">>, <<2>>, 10)}

MixedTasks ==
  {Task("T1", 1, <<"a">>, <<1>>, 1), Task("T2", 5, <<"a">>, <<2, 2>>, 1),
   Task("", 0, <<"c">>, <<>>, 3)}

IsMixedDataSet(d) ==
  \E cs \in SeqsUpTo(MixedClients, MaxClients),
     ws \in SeqsUpTo(MixedWorkers, MaxWorkers),
     ts \in SeqsUpTo(MixedTasks, MaxTasks) :
    d = DataSet(cs, ws, ts)

\* datasets that vary the IDs; an empty ID is a missing one
IsIdDataSet(d) ==
  \E cs \in SeqsUpTo({Client(id, 3, <<>>) : id \in ClientIDs}, MaxClients),
     ws \in SeqsUpTo({Worker(id, <<"a">>, <<1>>, 1) : id \in WorkerIDs}, MaxWorkers),
     ts \in SeqsUpTo({Task(id, 1, <<"a">>, <<1>>, 1) : id \in TaskIDs}, MaxTasks) :
    d = DataSet(cs, ws, ts)

\* datasets that vary the clients' references and the tasks they may name
IsRefDataSet(d) ==
  \E cs \in SeqsUpTo({Client(id, 3, rq) : id \in {"C1", "C2"}, rq \in RequestLists},
                     MaxClients),
     ts \in SeqsUpTo({Task(id, 1, <<"a">>, <<1>>, 1) : id \in {"", "T1", "T9"}},
                     MaxTasks) :
    d = DataSet(cs, <<Worker("W1", <<"a">>, <<1>>, 1)>>, ts)

\* datasets that vary PriorityLevel and Duration around their limits
IsRangeDataSet(d) ==
  \E cs \in SeqsUpTo({Client(id, p, <<>>) : id \in {"C1", "C2"}, p \in Priorities},
                     MaxClients),
     ts \in SeqsUpTo({Task("T1", du, <<"a">>, <<1>>, 1) : du \in Durations},
                     MaxTasks) :
    d = DataSet(cs, <<Worker("W1", <<"a">>, <<1>>, 1)>>, ts)

\* datasets that vary the workers' skills and the tasks' required skills
WorkersWithSkills ==
  SeqsUpTo({Worker("W1", sk, <<1>>, 1) : sk \in SkillLists}, MaxWorkers)

IsCoverageDataSet(d) ==
  \E ws \in WorkersWithSkills,
     ts \in SeqsUpTo({Task(id, 1, rs, <<1>>, 1) :
                        id \in {"T1", "T2"}, rs \in RequiredLists}, MaxTasks) :
    d = DataSet(<<>>, ws, ts)

IsConcurrencyDataSet(d) ==
  \E ws \in WorkersWithSkills,
     ts \in SeqsUpTo({Task("T1", 1, rs, <<1>>, mc) :
                        rs \in {<<>>, <<"a">>, <<"a", "b">>}, mc \in 0..3}, MaxTasks) :
    d = DataSet(<<>>, ws, ts)

\* the entity e without the property field (reading it gives undefined)
Without(e, field) == [k \in DOMAIN e \ {field} |-> e[k]]

\* datasets that vary the mandatory fields: present, empty (a string "", a
\* number 0, a list []) or, for the names, absent
MissingClients ==
  {[Client(id, p, <<>>) EXCEPT !.ClientName = n] :
     id \in {"", "C1"}, p \in {0, 3}, n \in {"", "Acme"}}
    \cup {Without(Client("C1", 3, <<>>), "ClientName")}

MissingWorkers ==
  {[Worker(id, sk, sl, 1) EXCEPT !.WorkerName = n] :
     id \in {"", "W1"}, sk \in {<<>>, <<"a">>}, sl \in {<<>>, <<1>>}, n \in {"", "Ann"}}
    \cup {Without(Worker("", <<>>, <<1>>, 1), "WorkerName")}

MissingTasks ==
  {[Task(id, du, rs, <<1>>, 1) EXCEPT !.TaskName = n] :
     id \in {"", "T1"}, du \in {0, 1}, rs \in {<<>>, <<"a">>}, n \in {"", "Job"}}
    \cup {Without(Task("T1", 0, <<"a">>, <<1>>, 1), "TaskName")}

\* one collection varies, the other two hold one complete entity each
IsMissingDataSet(d) ==
  \/ \E cs \in SeqsUpTo(MissingClients, MaxClients) :
       d = DataSet(cs, <<Worker("W1", <<"a">>, <<1>>, 1)>>,
                   <<Task("T1", 1, <<"a">>, <<1>>, 1)>>)
  \/ \E ws \in SeqsUpTo(MissingWorkers, MaxWorkers) :
       d = DataSet(<<Client("C1", 3, <<>>)>>, ws, <<Task("T1", 1, <<"a">>, <<1>>, 1)>>)
  \/ \E ts \in SeqsUpTo(MissingTasks, MaxTasks) :
       d = DataSet(<<Client("C1", 3, <<>>)>>, <<Worker("W1", <<"a">>, <<1>>, 1)>>, ts)

\* datasets that vary the kind of value in AttributesJSON
IsAttributesDataSet(d) ==
  \E cs \in SeqsUpTo({[Client(id, 3, <<>>) EXCEPT !.AttributesJSON = a] :
                        id \in {"C1", "C2"}, a \in AttributeKinds}, MaxClients) :
    d = DataSet(cs, <<Worker("W1", <<"a">>, <<1>>, 1)>>,
                <<Task("T1", 1, <<"a">>, <<1>>, 1)>>)

\* datasets that vary the entries of AvailableSlots: positive, zero,
\* negative, not a number
MalformedSlotLists ==
  {<<>>, <<1>>, <<0>>, <<0, 0>>, <<-1, 2>>, <<NaN>>, <<2, NaN, 0>>}

IsSlotDataSet(d) ==
  \E ws \in SeqsUpTo({Worker(id, <<"a">>, sl, 0) :
                        id \in {"W1", "W2"}, sl \in MalformedSlotLists}, MaxWorkers) :
    d = DataSet(<<Client("C1", 3, <<>>)>>, ws, <<Task("T1", 1, <<"a">>, <<1>>, 1)>>)

\* datasets whose clients have an ID of their own, share one or have none,
\* next to a worker and a task that have findings
IsClientDataSet(d) ==
  \E cs \in SeqsUpTo({Client(id, p, <<>>) : id \in ClientIDs, p \in {3, 7}},
                     MaxClients) :
    d = DataSet(cs, <<Worker("W1", <<"a">>, <<0>>, 1)>>,
                <<Task("T1", 0, <<"a">>, <<1>>, 1)>>)

\* datasets in which an entity may lack a list property
AbsentClients ==
  {Client("C1", 3, <<"T1">>), Without(Client("C2", 3, <<>>), "RequestedTaskIDs")}

AbsentWorkers ==
  {Worker("W1", <<"a">>, <<1>>, 1), Worker("W2", <<>>, <<>>, 1),
   Without(Worker("W1", <<"a">>, <<1>>, 1), "AvailableSlots"),
   Without(Worker("W2", <<"a">>, <<1>>, 1), "Skills")}

AbsentTasks ==
  {Task("T1", 1, <<"a">>, <<1>>, 1),
   Without(Task("T1", 1, <<"a">>, <<1>>, 1), "PreferredPhases"),
   Without(Task("T2", 1, <<"a">>, <<1>>, 1), "RequiredSkills")}

IsAbsentDataSet(d) ==
  \E cs \in SeqsUpTo(AbsentClients, MaxClients),
     ws \in SeqsUpTo(AbsentWorkers, MaxWorkers),
     ts \in SeqsUpTo(AbsentTasks, MaxTasks) :
    d = DataSet(cs, ws, ts)

\* small datasets of the mixed entities
IsOrderDataSet(d) ==
  \E cs \in SeqsUpTo(MixedClients, MaxClients - 1),
     ws \in SeqsUpTo(MixedWorkers, MaxWorkers),
     ts \in SeqsUpTo(MixedTasks, MaxTasks - 1) :
    d = DataSet(cs, ws, ts)

\* datasets that vary the phases, durations and loads
IsPhaseDataSet(d) ==
  \E ws \in SeqsUpTo({Worker("W1", <<"a">>, sl, ld) : sl \in SlotLists, ld \in Loads},
                     MaxWorkers),
     ts \in SeqsUpTo({Task("T1", du, <<"a">>, ph, 1) :
                        du \in {0, 5}, ph \in PhaseLists}, MaxTasks) :
    d = DataSet(<<>>, ws, ts)

(***************************************************************************)
(* The state machine: validateDataSet is called on a dataset and may then  *)
(* be called a second time on a dataset that differs from the first only   *)
(* in the MaxLoadPerPhase of one worker; prev keeps the first dataset and  *)
(* its report so that the two reports can be compared.                     *)
(***************************************************************************)
\* the report before any call: no findings
NoResult == [isValid |-> TRUE, errors |-> <<>>, warnings |-> <<>>]

\* the three DataGrid components of the page, by the type they are given
GridTypes == {"clients", "workers", "tasks"}

\* the page as it is first rendered (the initial values of its useState)
PageFresh ==
  /\ dataSet = [clients |-> <<>>, workers |-> <<>>, tasks |-> <<>>]
  /\ validationResult = NoResult
  /\ currentStep = "upload"
  /\ uploading = {}
  /\ editingCell = [type \in GridTypes |-> <<>>]
  /\ searchTerm = [type \in GridTypes |-> ""]
  /\ shownAtStart = [type \in GridTypes |-> 0]

\* before a file has been read
NoParseResult == [data |-> <<>>, errors |-> <<>>]

NormalizerFresh ==
  /\ fileType = "clients"
  /\ rawData = <<>>
  /\ parsed = NoParseResult
  /\ parsedBy = "none"

Fresh ==
  /\ result = NoResult
  /\ prev = <<>>
  /\ pc = "ready"
  /\ PageFresh
  /\ NormalizerFresh

InitIds == IsIdDataSet(data) /\ Fresh

InitRefs == IsRefDataSet(data) /\ Fresh

InitRange == IsRangeDataSet(data) /\ Fresh

InitCoverage == IsCoverageDataSet(data) /\ Fresh

InitConcurrency == IsConcurrencyDataSet(data) /\ Fresh

InitPhases == IsPhaseDataSet(data) /\ Fresh

InitMissing == IsMissingDataSet(data) /\ Fresh

InitAttributes == IsAttributesDataSet(data) /\ Fresh

InitSlots == IsSlotDataSet(data) /\ Fresh

InitClients == IsClientDataSet(data) /\ Fresh

InitAbsent == IsAbsentDataSet(data) /\ Fresh

InitOrder == IsOrderDataSet(data) /\ Fresh

Init == IsMixedDataSet(data) /\ Fresh

\* variant: the entities without an ID are dropped from the dataset
Validate_DroppingRows ==
  /\ pc = "ready"
  /\ ~Throws(data)
  /\ result' = validateDataSet(data)
  /\ pc' = "done"
  /\ data' = [clients |-> SelectSeq(data.clients, LAMBDA c : c.ClientID # ""),
              workers |-> SelectSeq(data.workers, LAMBDA w : w.WorkerID # ""),
              tasks |-> SelectSeq(data.tasks, LAMBDA t : t.TaskID # "")]
  /\ UNCHANGED prev
  /\ UNCHANGED <<pageVars, normalizerVars>>

\* validateDataSet(data) returns: the rules only read the dataset
Validate ==
  /\ pc = "ready"
  /\ ~Throws(data)
  /\ result' = validateDataSet(data)
  /\ pc' = "done"
  /\ UNCHANGED <<data, prev>>
  /\ UNCHANGED <<pageVars, normalizerVars>>

\* validateDataSet(data) throws: the caller gets the exception and no report
ValidateThrows ==
  /\ pc = "ready"
  /\ Throws(data)
  /\ pc' = "thrown"
  /\ UNCHANGED <<data, result, prev>>
  /\ UNCHANGED <<pageVars, normalizerVars>>

\* validateDataSet(data2), where data2 is data with the MaxLoadPerPhase of
\* worker i set to v
ChangeMaxLoad(i, v) ==
  /\ pc = "done"
  /\ prev = <<>>
  /\ i \in 1..Len(data.workers)
  /\ v # data.workers[i].MaxLoadPerPhase
  /\ prev' = <<[data |-> data, result |-> result, worker |-> i]>>
  /\ data' = [data EXCEPT !.workers[i].MaxLoadPerPhase = v]
  /\ result' = validateDataSet(data')
  /\ pc' = "done"
  /\ UNCHANGED <<pageVars, normalizerVars>>

\* variant: the PriorityLevel of every client is set to v
ChangePriority_EveryClient(i, v) ==
  /\ pc = "done"
  /\ prev = <<>>
  /\ i \in 1..Len(data.clients)
  /\ v # data.clients[i].PriorityLevel
  /\ prev' = <<[data |-> data, result |-> result, client |-> i]>>
  /\ data' = [data EXCEPT !.clients =
                [j \in 1..Len(data.clients) |->
                   [data.clients[j] EXCEPT !.PriorityLevel = v]]]
  /\ result' = validateDataSet(data')
  /\ pc' = "done"
  /\ UNCHANGED <<pageVars, normalizerVars>>

\* validateDataSet(data2), where data2 is data with the PriorityLevel of
\* client i set to v
ChangePriority(i, v) ==
  /\ pc = "done"
  /\ prev = <<>>
  /\ i \in 1..Len(data.clients)
  /\ v # data.clients[i].PriorityLevel
  /\ prev' = <<[data |-> data, result |-> result, client |-> i]>>
  /\ data' = [data EXCEPT !.clients[i].PriorityLevel = v]
  /\ result' = validateDataSet(data')
  /\ pc' = "done"
  /\ UNCHANGED <<pageVars, normalizerVars>>

Next == Validate

NextEdit == Validate \/ \E i \in 1..MaxWorkers, v \in Loads : ChangeMaxLoad(i, v)

NextCall == Validate \/ ValidateThrows

NextPriority ==
  Validate \/ \E i \in 1..MaxClients, v \in Priorities : ChangePriority(i, v)

Spec == Init /\ [][Next]_vars

SpecIds == InitIds /\ [][Next]_vars

SpecRefs == InitRefs /\ [][Next]_vars

SpecRange == InitRange /\ [][Next]_vars

SpecCoverage == InitCoverage /\ [][Next]_vars

SpecConcurrency == InitConcurrency /\ [][Next]_vars

SpecPhases == InitPhases /\ [][Next]_vars

SpecPhaseEdit == InitPhases /\ [][NextEdit]_vars

SpecMissing == InitMissing /\ [][Next]_vars

SpecAttributes == InitAttributes /\ [][Next]_vars

SpecSlots == InitSlots /\ [][Next]_vars

SpecPriorityEdit == InitClients /\ [][NextPriority]_vars

SpecAbsent == InitAbsent /\ [][NextCall]_vars

SpecOrder == InitOrder /\ [][Next]_vars

(***************************************************************************)
(* Properties of the report.                                               *)
(***************************************************************************)
\* the number of positions of xs that hold x
Occurrences(xs, x) == Cardinality({i \in 1..Len(xs) : xs[i] = x})

\* the findings of the report, errors first
Reported == result.errors \o result.warnings

IsSaturationWarning(f) ==
  /\ f.type = "warning"
  /\ f.severity = "high"
  /\ "field" \notin DOMAIN f

\* C1: after validateDataSet, isValid is true if and only if errors is empty,
\* whatever warnings (of whatever severity) the report holds.
C1_IsValidIffNoErrors ==
  pc = "done" => (result.isValid <=> Len(result.errors) = 0)

\* a valid report whose warnings include a severity-high saturation warning
C1_Witness ==
  /\ pc = "done"
  /\ result.isValid
  /\ result.errors = <<>>
  /\ \E i \in 1..Len(result.warnings) : IsSaturationWarning(result.warnings[i])

\* the findings of the ten rules, each applied to the dataset
RuleFindings(d) ==
  validateMaxConcurrencyFeasibility(d)
    \o validateSkillCoverageMatrix(d)
    \o validatePhaseSlotSaturation(d)
    \o validateOverloadedWorkers(d)
    \o validateUnknownReferences(d)
    \o validateBrokenJSON(d)
    \o validateOutOfRangeValues(d)
    \o validateMalformedLists(d)
    \o validateDuplicateIDs(d)
    \o validateMissingRequiredColumns(d)

\* C2: errors holds only findings of type error, warnings only findings of
\* type warning, and every finding of the ten rules occurs in errors and
\* warnings together exactly as often as the rules produced it; the sizes
\* add up to the number of findings produced.
C2_Partition ==
  pc = "done" =>
    LET fs == RuleFindings(data) IN
      /\ \A i \in 1..Len(result.errors) : result.errors[i].type = "error"
      /\ \A i \in 1..Len(result.warnings) : result.warnings[i].type = "warning"
      /\ Len(result.errors) + Len(result.warnings) = Len(fs)
      /\ \A k \in 1..Len(fs) :
           Occurrences(fs, fs[k])
             = Occurrences(result.errors, fs[k]) + Occurrences(result.warnings, fs[k])

\* a report that holds both errors and warnings
C2_Witness ==
  /\ pc = "done"
  /\ Len(result.errors) > 0
  /\ Len(result.warnings) > 0

(***************************************************************************)
(* Properties of the rules.  The expected findings are stated with sets    *)
(* and counts of the dataset, not with the rules' own operators.           *)
(***************************************************************************)
\* the set of the entries of a list
Entries(xs) == {xs[i] : i \in 1..Len(xs)}

\* the positions of es whose entity satisfies P
Where(es, P(_)) == {i \in 1..Len(es) : P(es[i])}

RECURSIVE SumOver(_, _, _)
\* the sum of es[i][field] over the positions i in I
SumOver(es, field, I) ==
  IF I = {} THEN 0
  ELSE LET i == CHOOSE x \in I : TRUE
       IN es[i][field] + SumOver(es, field, I \ {i})

HasField(f, field) == "field" \in DOMAIN f /\ f.field = field

\* the duplicate-ID errors of the report that name the ID v
DuplicateErrors(etype, idField, v) ==
  Where(result.errors, LAMBDA f :
    /\ f.type = "error"
    /\ f.severity = "high"
    /\ HasField(f, idField)
    /\ f.entityType = etype
    /\ f.entityId = v
    /\ f.message = "Duplicate " \o idField \o ": " \o v)

\* an ID that occurs k >= 1 times in its collection has k - 1 duplicate errors
DuplicatesCounted(es, etype, idField, v) ==
  LET k == Cardinality(Where(es, LAMBDA e : e[idField] = v))
  IN k >= 1 => Cardinality(DuplicateErrors(etype, idField, v)) = k - 1

\* C4 as stated: every ID value, the empty one included, that occurs k >= 1
\* times in its collection yields exactly k - 1 duplicate-ID errors.
C4_EveryIdValue ==
  pc = "done" =>
    /\ \A v \in ClientIDs : DuplicatesCounted(data.clients, "client", "ClientID", v)
    /\ \A v \in WorkerIDs : DuplicatesCounted(data.workers, "worker", "WorkerID", v)
    /\ \A v \in TaskIDs : DuplicatesCounted(data.tasks, "task", "TaskID", v)

\* C4 (amended): within each collection, a non-empty ID value that occurs
\* k >= 1 times yields exactly k - 1 duplicate-ID errors (type error,
\* severity high, field = the ID field), and an empty ID yields none however
\* often it occurs.
C4_NonEmptyIdValue ==
  pc = "done" =>
    /\ \A v \in ClientIDs \ {""} :
         DuplicatesCounted(data.clients, "client", "ClientID", v)
    /\ \A v \in WorkerIDs \ {""} :
         DuplicatesCounted(data.workers, "worker", "WorkerID", v)
    /\ \A v \in TaskIDs \ {""} : DuplicatesCounted(data.tasks, "task", "TaskID", v)
    /\ DuplicateErrors("client", "ClientID", "") = {}
    /\ DuplicateErrors("worker", "WorkerID", "") = {}
    /\ DuplicateErrors("task", "TaskID", "") = {}

\* ClientID "C1" occurs three times and has two duplicate errors
C4_Witness ==
  /\ pc = "done"
  /\ Cardinality(Where(data.clients, LAMBDA e : e.ClientID = "C1")) = 3
  /\ Cardinality(DuplicateErrors("client", "ClientID", "C1")) = 2

\* the unknown-reference errors of the report for client ID cid and task ID t
UnknownRefErrors(cid, t) ==
  Where(result.errors, LAMBDA f :
    /\ f.type = "error"
    /\ f.severity = "high"
    /\ HasField(f, "RequestedTaskIDs")
    /\ f.entityType = "client"
    /\ f.entityId = cid
    /\ f.message = "Client references unknown TaskID: " \o t)

\* the entries (client position, entry position) of clients with ID cid that
\* name t
RequestEntries(cid, t) ==
  {e \in UNION {{i} \X (1..Len(data.clients[i].RequestedTaskIDs)) :
                  i \in 1..Len(data.clients)} :
     /\ data.clients[e[1]].ClientID = cid
     /\ data.clients[e[1]].RequestedTaskIDs[e[2]] = t}

TaskExists(t) == \E i \in 1..Len(data.tasks) : data.tasks[i].TaskID = t

\* C5: every entry t of a client's RequestedTaskIDs yields exactly one
\* unknown-reference error (type error, severity high, field
\* RequestedTaskIDs, entityId the client's ID, message naming t) when no task
\* has TaskID t, and none when such a task exists.
C5_UnknownReferences ==
  pc = "done" =>
    /\ \A cid \in {"C1", "C2"}, t \in {"T1", "T9"} :
         Cardinality(UnknownRefErrors(cid, t))
           = IF TaskExists(t) THEN 0 ELSE Cardinality(RequestEntries(cid, t))
    /\ Cardinality(Where(result.errors, LAMBDA f : HasField(f, "RequestedTaskIDs")))
         = Cardinality(UNION {RequestEntries(cid, t) \X {t} :
                                cid \in {"C1", "C2"},
                                t \in {u \in {"T1", "T9"} : ~TaskExists(u)}})

\* a client names T9, no task is T9, and there is one error for it; another
\* client names T1, which exists
C5_Witness ==
  /\ pc = "done"
  /\ Cardinality(RequestEntries("C1", "T9")) = 1
  /\ ~TaskExists("T9")
  /\ Cardinality(UnknownRefErrors("C1", "T9")) = 1
  /\ RequestEntries("C2", "T1") # {}
  /\ TaskExists("T1")

\* the skill-coverage errors of the report for task ID tid and skill s
CoverageErrors(tid, s) ==
  Where(result.errors, LAMBDA f :
    /\ f.type = "error"
    /\ f.severity = "high"
    /\ HasField(f, "RequiredSkills")
    /\ f.entityType = "task"
    /\ f.entityId = tid
    /\ f.message = "No worker has required skill: " \o s)

SomeWorkerHas(s) == \E i \in 1..Len(data.workers) : s \in Entries(data.workers[i].Skills)

\* the tasks with ID tid that require the skill s, which no worker has
UncoveredPairs(tid, s) ==
  Where(data.tasks, LAMBDA t :
    t.TaskID = tid /\ s \in Entries(t.RequiredSkills) /\ ~SomeWorkerHas(s))

\* C6: the skill-coverage errors correspond one-to-one to the pairs (task,
\* skill) with the skill in the task's RequiredSkills and held by no worker:
\* exactly one error per pair, none for a skill that some worker has.
C6_OneErrorPerPair ==
  pc = "done" =>
    \A tid \in {"T1", "T2"}, s \in {"a", "b", "c"} :
      Cardinality(CoverageErrors(tid, s)) = Cardinality(UncoveredPairs(tid, s))

\* the workers that hold every required skill of the task
QualifiedSet(t) ==
  Where(data.workers, LAMBDA w : Entries(t.RequiredSkills) \subseteq Entries(w.Skills))

\* the concurrency warnings of the report that cite mc and q
ConcurrencyWarnings(mc, q) ==
  Where(result.warnings, LAMBDA f :
    /\ f.type = "warning"
    /\ f.severity = "medium"
    /\ HasField(f, "MaxConcurrent")
    /\ f.entityType = "task"
    /\ f.message = "MaxConcurrent (" \o ToString(mc)
                     \o ") exceeds qualified workers (" \o ToString(q) \o ")")

\* C7: every task yields exactly one concurrency warning (type warning,
\* severity medium, field MaxConcurrent, message citing MaxConcurrent and q)
\* if MaxConcurrent > q, and none otherwise, where q is the number of workers
\* that each hold every required skill of the task.
C7_ConcurrencyFeasibility ==
  pc = "done" =>
    /\ \A mc \in 0..3, q \in 0..Len(data.workers) :
         Cardinality(ConcurrencyWarnings(mc, q))
           = Cardinality(Where(data.tasks, LAMBDA t :
               /\ t.MaxConcurrent = mc
               /\ Cardinality(QualifiedSet(t)) = q
               /\ mc > q))
    /\ Cardinality(Where(result.warnings, LAMBDA f : HasField(f, "MaxConcurrent")))
         = Cardinality(Where(data.tasks, LAMBDA t :
             t.MaxConcurrent > Cardinality(QualifiedSet(t))))

\* a task with MaxConcurrent 3 and two qualified workers is warned about,
\* citing 3 and 2, and a task whose two skills are held by two different
\* workers has no qualified worker
C7_Witness ==
  /\ pc = "done"
  /\ \E i \in 1..Len(data.tasks) :
       /\ data.tasks[i].MaxConcurrent = 3
       /\ Cardinality(QualifiedSet(data.tasks[i])) = 2
  /\ Cardinality(ConcurrencyWarnings(3, 2)) = 1
  /\ \E i \in 1..Len(data.tasks) :
       /\ Len(data.tasks[i].RequiredSkills) = 2
       /\ QualifiedSet(data.tasks[i]) = {}
       /\ \A s \in Entries(data.tasks[i].RequiredSkills) : SomeWorkerHas(s)

\* the saturation warnings of a report for phase p
SaturationWarnings(r, p) ==
  Where(r.warnings, LAMBDA f :
    /\ f.type = "warning"
    /\ f.severity = "high"
    /\ "field" \notin DOMAIN f
    /\ f.entityId = "Phase " \o ToString(p))

\* demand(p): the sum of Duration over the tasks whose PreferredPhases contains p
Demand(d, p) ==
  SumOver(d.tasks, "Duration", Where(d.tasks, LAMBDA t : p \in Entries(t.PreferredPhases)))

\* supply(p): the sum of MaxLoadPerPhase over the workers whose AvailableSlots
\* contains p
Supply(d, p) ==
  SumOver(d.workers, "MaxLoadPerPhase",
          Where(d.workers, LAMBDA w : p \in Entries(w.AvailableSlots)))

Preferred(d, p) == \E i \in 1..Len(d.tasks) : p \in Entries(d.tasks[i].PreferredPhases)

Phases == 1..3

\* C8: for every phase p there is exactly one saturation warning (type
\* warning, severity high, no field) if p is preferred by some task and
\* demand(p) > supply(p), and none otherwise.
C8_SaturationPerPhase ==
  pc = "done" =>
    \A p \in Phases :
      Cardinality(SaturationWarnings(result, p))
        = IF Preferred(data, p) /\ Demand(data, p) > Supply(data, p) THEN 1 ELSE 0

\* C9: when the report before the edit warned about phase p and the edited
\* worker is available in p, a new MaxLoadPerPhase with supply(p) >= demand(p)
\* leaves no saturation warning for p and adds none for any other phase.
C9_RaisingSupply ==
  (pc = "done" /\ prev # <<>>) =>
    \A p \in Phases :
      ( /\ SaturationWarnings(prev[1].result, p) # {}
        /\ p \in Entries(data.workers[prev[1].worker].AvailableSlots)
        /\ Supply(data, p) >= Demand(data, p) )
      => /\ SaturationWarnings(result, p) = {}
         /\ \A q \in Phases \ {p} :
              SaturationWarnings(result, q) # {}
                => SaturationWarnings(prev[1].result, q) # {}

\* the range errors of the report for an entity ID and an offending value
RangeErrors(etype, field, id, text, v) ==
  Where(result.errors, LAMBDA f :
    /\ f.type = "error"
    /\ f.severity = "medium"
    /\ HasField(f, field)
    /\ f.entityType = etype
    /\ f.entityId = id
    /\ f.message = text \o ToString(v))

\* C10: a client with PriorityLevel below 1 or above 5 yields exactly one
\* range error (type error, severity medium, field PriorityLevel, message
\* with the value) and a client with PriorityLevel in 1..5 none; a task with
\* Duration below 1 yields exactly one range error (field Duration, message
\* with the value) and a task with Duration >= 1 none.
C10_OutOfRange ==
  pc = "done" =>
    /\ \A id \in {"C1", "C2"}, v \in Priorities :
         Cardinality(RangeErrors("client", "PriorityLevel", id,
                                 "PriorityLevel must be between 1-5, got: ", v))
           = IF v \in 1..5 THEN 0
             ELSE Cardinality(Where(data.clients, LAMBDA c :
                    c.ClientID = id /\ c.PriorityLevel = v))
    /\ Cardinality(Where(result.errors, LAMBDA f :
         HasField(f, "PriorityLevel") /\ f.severity = "medium"))
         = Cardinality(Where(data.clients, LAMBDA c : c.PriorityLevel \notin 1..5))
    /\ \A v \in Durations :
         Cardinality(RangeErrors("task", "Duration", "T1",
                                 "Duration must be at least 1, got: ", v))
           = IF v >= 1 THEN 0
             ELSE Cardinality(Where(data.tasks, LAMBDA t : t.Duration = v))
    /\ Cardinality(Where(result.errors, LAMBDA f :
         HasField(f, "Duration") /\ f.severity = "medium"))
         = Cardinality(Where(data.tasks, LAMBDA t : ~(t.Duration >= 1)))

\* a client with PriorityLevel 7 has one range error naming 7, a client with
\* PriorityLevel 5 has none, and a task with Duration 0 has one
C10_Witness ==
  /\ pc = "done"
  /\ Cardinality(Where(data.clients, LAMBDA c :
       c.ClientID = "C1" /\ c.PriorityLevel = 7)) = 1
  /\ Cardinality(RangeErrors("client", "PriorityLevel", "C1",
                             "PriorityLevel must be between 1-5, got: ", 7)) = 1
  /\ \E i \in 1..Len(data.clients) :
       data.clients[i].ClientID = "C2" /\ data.clients[i].PriorityLevel = 5
  /\ Cardinality(Where(data.tasks, LAMBDA t : t.Duration = 0)) = 1
  /\ Cardinality(RangeErrors("task", "Duration", "T1",
                             "Duration must be at least 1, got: ", 0)) = 1

(***************************************************************************)
(* Rule 1: missing required fields.                                        *)
(***************************************************************************)
\* the value of a mandatory field is absent, "", 0 or an empty list
Blank(e, field) ==
  \/ field \notin DOMAIN e
  \/ /\ field \in DOMAIN e
     /\ CASE field \in {"PriorityLevel", "Duration"} -> e[field] = 0
          [] field \in {"Skills", "AvailableSlots", "RequiredSkills"} -> e[field] = <<>>
          [] OTHER -> e[field] = ""

\* the missing-field errors of the report for a field of a kind of entity
MissingErrors(etype, field) ==
  Where(result.errors, LAMBDA f :
    /\ f.type = "error"
    /\ f.severity = "high"
    /\ HasField(f, field)
    /\ f.entityType = etype
    /\ f.message = "Missing required field: " \o field)

\* one missing-field error for each entity of es whose field is blank, naming
\* the entity by its ID or, without one, by its row; none for the others
MissingReported(es, etype, idField, field) ==
  /\ Cardinality(MissingErrors(etype, field))
       = Cardinality(Where(es, LAMBDA e : Blank(e, field)))
  /\ \A v \in {result.errors[k].entityId : k \in MissingErrors(etype, field)} :
       Cardinality({k \in MissingErrors(etype, field) : result.errors[k].entityId = v})
         = Cardinality({i \in 1..Len(es) :
             /\ Blank(es[i], field)
             /\ v = IF es[i][idField] = "" THEN "Row " \o ToString(i)
                                           ELSE es[i][idField]})

\* C11: for every entity and each of its mandatory fields, the report holds
\* exactly one missing-field error (error, high, field = that field) when the
\* value is absent, empty, 0 or an empty list, and none otherwise.
C11_MissingRequiredFields ==
  pc = "done" =>
    /\ \A field \in {"ClientID", "ClientName", "PriorityLevel"} :
         MissingReported(data.clients, "client", "ClientID", field)
    /\ \A field \in {"WorkerID", "WorkerName", "Skills", "AvailableSlots"} :
         MissingReported(data.workers, "worker", "WorkerID", field)
    /\ \A field \in {"TaskID", "TaskName", "Duration", "RequiredSkills"} :
         MissingReported(data.tasks, "task", "TaskID", field)

\* a report on a worker without a name property and with an empty Skills list
\* next to a worker that has every mandatory field
C11_Witness ==
  /\ pc = "done"
  /\ \E i, j \in 1..Len(data.workers) :
       /\ "WorkerName" \notin DOMAIN data.workers[i]
       /\ data.workers[i].Skills = <<>>
       /\ \A field \in {"WorkerID", "WorkerName", "Skills", "AvailableSlots"} :
            ~Blank(data.workers[j], field)
  /\ Cardinality(MissingErrors("worker", "Skills")) = 1
  /\ Cardinality(MissingErrors("worker", "WorkerName")) = 1

(***************************************************************************)
(* Rule 5: malformed AttributesJSON.                                       *)
(***************************************************************************)
\* the errors of the report about the AttributesJSON of the client named v
AttributesErrors(v) ==
  Where(result.errors, LAMBDA f :
    /\ f.type = "error"
    /\ f.severity = "low"
    /\ HasField(f, "AttributesJSON")
    /\ f.entityType = "client"
    /\ f.entityId = v)

\* C12: a client whose AttributesJSON is present but is not a key-to-value
\* mapping (an array, a string, a number) has an error with field
\* AttributesJSON, entityType client and severity low in the report; a client
\* whose AttributesJSON is a mapping has none.
C12_MalformedAttributes ==
  pc = "done" =>
    \A i \in 1..Len(data.clients) :
      IF data.clients[i].AttributesJSON = "object"
        THEN \/ AttributesErrors(data.clients[i].ClientID) = {}
             \/ \E j \in 1..Len(data.clients) :
                  /\ data.clients[j].ClientID = data.clients[i].ClientID
                  /\ data.clients[j].AttributesJSON # "object"
        ELSE AttributesErrors(data.clients[i].ClientID) # {}

(***************************************************************************)
(* Properties of the findings' identifiers and attributions.               *)
(***************************************************************************)
\* C13: no two findings of one report (errors and warnings together) have
\* the same id.
C13_UniqueIds ==
  pc = "done" =>
    \A i, j \in 1..Len(Reported) : i # j => Reported[i].id # Reported[j].id

\* the names a finding may carry for an entity of its kind: the ID of an
\* entity that has one, "Row N" for the entity at position N that has none
EntityNames(es, idField) ==
  {IF es[i][idField] = "" THEN "Row " \o ToString(i) ELSE es[i][idField] :
     i \in 1..Len(es)}

\* a finding with a field is about one entity (the saturation finding is
\* about a phase)
AboutEntity(f) == "field" \in DOMAIN f

\* C14: every finding about an entity, whatever rule produced it, carries a
\* non-empty entityId: the entity's ID, or "Row N" when the entity at
\* position N has no ID.
C14_EntityIdOrRow ==
  pc = "done" =>
    \A k \in 1..Len(Reported) :
      AboutEntity(Reported[k]) =>
        /\ Reported[k].entityId # ""
        /\ Reported[k].entityId \in
             (CASE Reported[k].entityType = "client" ->
                     EntityNames(data.clients, "ClientID")
                [] Reported[k].entityType = "worker" ->
                     EntityNames(data.workers, "WorkerID")
                [] Reported[k].entityType = "task" ->
                     EntityNames(data.tasks, "TaskID"))

(***************************************************************************)
(* Rule 3: malformed AvailableSlots.                                       *)
(***************************************************************************)
\* an entry that is not a number, or a number below 1
Offending(x) == x = NaN \/ x <= 0

\* how x is written in a message
Shown(x) == IF x = NaN THEN "NaN" ELSE ToString(x)

\* the malformed-list errors of the report
MalformedErrors ==
  Where(result.errors, LAMBDA f :
    /\ f.type = "error"
    /\ f.severity = "medium"
    /\ HasField(f, "AvailableSlots")
    /\ f.entityType = "worker")

\* the positions (worker, entry) of the entries of value x in the lists of
\* the workers named v
SlotEntries(v, x) ==
  UNION {{<<i, j>> : j \in {j \in 1..Len(data.workers[i].AvailableSlots) :
                              data.workers[i].AvailableSlots[j] = x}} :
           i \in {i \in 1..Len(data.workers) : data.workers[i].WorkerID = v}}

\* the IDs of the workers and the values of the entries of their lists
WorkerIDsOf(d) == {d.workers[i].WorkerID : i \in 1..Len(d.workers)}

SlotValuesOf(d) == UNION {Entries(d.workers[i].AvailableSlots) : i \in 1..Len(d.workers)}

\* C15: a worker has one malformed-list error (error, medium, field
\* AvailableSlots, the value in the message) for each entry of its
\* AvailableSlots that is not a number or is below 1, and none when every
\* entry is a number of at least 1.
C15_MalformedSlots ==
  pc = "done" =>
    /\ \A v \in WorkerIDsOf(data), x \in SlotValuesOf(data) :
         Cardinality({k \in MalformedErrors :
                        /\ result.errors[k].entityId = v
                        /\ result.errors[k].message
                             = "Invalid AvailableSlot value: " \o Shown(x)
                                 \o ". Must be positive numbers."})
           = IF Offending(x) THEN Cardinality(SlotEntries(v, x)) ELSE 0
    /\ Cardinality(MalformedErrors)
         = Cardinality(UNION {SlotEntries(v, x) :
             v \in WorkerIDsOf(data), x \in {x \in SlotValuesOf(data) : Offending(x)}})

\* a report on a worker with a non-numeric entry, a zero and a valid entry,
\* which has two malformed-list errors
C15_Witness ==
  /\ pc = "done"
  /\ \E i \in 1..Len(data.workers) : data.workers[i].AvailableSlots = <<2, NaN, 0>>
  /\ \E i \in 1..Len(data.workers) : data.workers[i].AvailableSlots = <<1>>
  /\ Cardinality(MalformedErrors) = 2

(***************************************************************************)
(* Rule 7: overloaded workers.                                             *)
(***************************************************************************)
\* the positions in fs of the findings on the MaxLoadPerPhase of a worker
OverloadFindings(fs) ==
  Where(fs, LAMBDA f : HasField(f, "MaxLoadPerPhase") /\ f.entityType = "worker")

\* the workers named v that have n entries in AvailableSlots and load l
WorkersLike(v, n, l) ==
  {i \in 1..Len(data.workers) :
     /\ data.workers[i].WorkerID = v
     /\ Len(data.workers[i].AvailableSlots) = n
     /\ data.workers[i].MaxLoadPerPhase = l}

\* C16: a worker has exactly one overloaded-worker warning (warning, medium,
\* field MaxLoadPerPhase) if its AvailableSlots has fewer entries than its
\* MaxLoadPerPhase and none otherwise; these findings are never among the
\* errors, so they do not make the report invalid.
C16_OverloadedWorkers ==
  pc = "done" =>
    /\ OverloadFindings(result.errors) = {}
    /\ \A k \in OverloadFindings(result.warnings) :
         /\ result.warnings[k].type = "warning"
         /\ result.warnings[k].severity = "medium"
    /\ \A i \in 1..Len(data.workers) :
         LET v == data.workers[i].WorkerID
             n == Len(data.workers[i].AvailableSlots)
             l == data.workers[i].MaxLoadPerPhase
         IN Cardinality({k \in OverloadFindings(result.warnings) :
                           /\ result.warnings[k].entityId = v
                           /\ result.warnings[k].message
                                = "Worker has " \o ToString(n)
                                    \o " available slots but MaxLoadPerPhase is "
                                    \o ToString(l)})
              = IF n < l THEN Cardinality(WorkersLike(v, n, l)) ELSE 0
    /\ Cardinality(OverloadFindings(result.warnings))
         = Cardinality({i \in 1..Len(data.workers) :
             Len(data.workers[i].AvailableSlots) < data.workers[i].MaxLoadPerPhase})

\* a report with one overloaded-worker warning, on a dataset in which
\* another worker has exactly as many entries as its MaxLoadPerPhase
C16_Witness ==
  /\ pc = "done"
  /\ Len(data.workers) = 2
  /\ Cardinality(OverloadFindings(result.warnings)) = 1
  /\ \E i \in 1..Len(data.workers) :
       Len(data.workers[i].AvailableSlots) = data.workers[i].MaxLoadPerPhase

(***************************************************************************)
(* The taxonomy of the findings.                                           *)
(***************************************************************************)
\* the rule a finding comes from, told by its field and message
RuleOf(f) ==
  IF "field" \notin DOMAIN f THEN "saturation"
  ELSE IF f.message = "Missing required field: " \o f.field THEN "missing"
  ELSE IF f.field \in {"ClientID", "WorkerID", "TaskID"} THEN "duplicate"
  ELSE IF f.field = "AvailableSlots" THEN "malformed list"
  ELSE IF f.field \in {"PriorityLevel", "Duration"} THEN "out of range"
  ELSE IF f.field = "AttributesJSON" THEN "malformed attributes"
  ELSE IF f.field = "RequestedTaskIDs" THEN "unknown reference"
  ELSE IF f.field = "MaxLoadPerPhase" THEN "overloaded"
  ELSE IF f.field = "RequiredSkills" THEN "skill coverage"
  ELSE IF f.field = "MaxConcurrent" THEN "concurrency"
  ELSE "none"

\* the kind and severity of the findings of each rule
KindAndSeverity ==
  [r \in {"missing", "duplicate", "unknown reference", "skill coverage"}
     |-> <<"error", "high">>]
  @@ [r \in {"malformed list", "out of range"} |-> <<"error", "medium">>]
  @@ [r \in {"malformed attributes"} |-> <<"error", "low">>]
  @@ [r \in {"overloaded", "concurrency"} |-> <<"warning", "medium">>]
  @@ [r \in {"saturation"} |-> <<"warning", "high">>]

\* the phases that the tasks of the dataset list
PhaseValuesOf(d) == UNION {Entries(d.tasks[i].PreferredPhases) : i \in 1..Len(d.tasks)}

\* C17: every finding has kind error or warning, a severity of low, medium
\* or high and an entityType of client, worker or task; its kind and severity
\* are those of its rule; the findings without a field are exactly the
\* phase-saturation warnings.
C17_Taxonomy ==
  pc = "done" =>
    \A k \in 1..Len(Reported) :
      LET f == Reported[k] IN
        /\ f.type \in {"error", "warning"}
        /\ f.severity \in {"low", "medium", "high"}
        /\ f.entityType \in {"client", "worker", "task"}
        /\ RuleOf(f) \in DOMAIN KindAndSeverity
        /\ <<f.type, f.severity>> = KindAndSeverity[RuleOf(f)]
        /\ "field" \notin DOMAIN f
             <=> f.id \in {"phase-saturation-" \o ToString(p) : p \in PhaseValuesOf(data)}

\* a report that holds a finding of every rule that produces findings
C17_Witness ==
  /\ pc = "done"
  /\ \A r \in DOMAIN KindAndSeverity \ {"malformed attributes"} :
       \E k \in 1..Len(Reported) : RuleOf(Reported[k]) = r

(***************************************************************************)
(* Effects of a validation on the dataset.                                 *)
(***************************************************************************)
\* C18: a call of validateDataSet leaves the clients, workers and tasks of
\* the dataset as they were: the same entities in the same order with the
\* same values in every field, list fields included.
C18_ReadOnly ==
  [][(pc = "ready" /\ pc' = "done") =>
       /\ data'.clients = data.clients
       /\ data'.workers = data.workers
       /\ data'.tasks = data.tasks]_vars

\* a report with findings on a dataset with entities of the three kinds,
\* one of them without an ID
C18_Witness ==
  /\ pc = "done"
  /\ Len(Reported) > 0
  /\ \E i \in 1..Len(data.clients) : data.clients[i].ClientID = ""
  /\ Len(data.workers) > 0
  /\ Len(data.tasks) > 0

\* the number of findings of the report r attributed to the entity of kind
\* etype at position i of es: those that carry its ID or, when it has none,
\* its row
Attributed(r, etype, es, idField, i) ==
  Cardinality({k \in 1..Len(r.errors \o r.warnings) :
    LET f == (r.errors \o r.warnings)[k] IN
      /\ f.entityType = etype
      /\ \/ f.entityId = es[i][idField]
         \/ es[i][idField] = "" /\ f.entityId = "Row " \o ToString(i)})

\* the workers and tasks have as many findings attributed to them in the
\* report as in the report before the change
OthersUnchanged ==
  /\ \A j \in 1..Len(data.workers) :
       Attributed(result, "worker", data.workers, "WorkerID", j)
         = Attributed(prev[1].result, "worker", data.workers, "WorkerID", j)
  /\ \A j \in 1..Len(data.tasks) :
       Attributed(result, "task", data.tasks, "TaskID", j)
         = Attributed(prev[1].result, "task", data.tasks, "TaskID", j)

\* C19 (amended): after the PriorityLevel of one client is changed and the
\* dataset is validated again, every worker, every task and every other
\* client whose ClientID differs from that of the changed client (two clients
\* without an ID have the same, empty, ClientID) has as many findings
\* attributed to it (by entityType and entityId) as before the change.
C19_LocalForOtherIds ==
  (pc = "done" /\ prev # <<>> /\ "client" \in DOMAIN prev[1]) =>
    /\ \A j \in 1..Len(data.clients) :
         (/\ j # prev[1].client
          /\ data.clients[j].ClientID # data.clients[prev[1].client].ClientID) =>
           Attributed(result, "client", data.clients, "ClientID", j)
             = Attributed(prev[1].result, "client", data.clients, "ClientID", j)
    /\ OthersUnchanged

\* a second report after a change that gave the changed client a new
\* finding, on a dataset with another client, of another ID, that has a
\* finding of its own
C19_Witness ==
  /\ pc = "done"
  /\ prev # <<>>
  /\ "client" \in DOMAIN prev[1]
  /\ Attributed(result, "client", data.clients, "ClientID", prev[1].client)
       > Attributed(prev[1].result, "client", data.clients, "ClientID", prev[1].client)
  /\ \E j \in 1..Len(data.clients) :
       /\ data.clients[j].ClientID # data.clients[prev[1].client].ClientID
       /\ Attributed(result, "client", data.clients, "ClientID", j) > 0

\* C19 as stated: after the PriorityLevel of one client is changed and the
\* dataset is validated again, every other entity has as many findings
\* attributed to it (by entityType and entityId) as before the change.
C19_LocalRevalidation ==
  (pc = "done" /\ prev # <<>> /\ "client" \in DOMAIN prev[1]) =>
    /\ \A j \in 1..Len(data.clients) :
         j # prev[1].client =>
           Attributed(result, "client", data.clients, "ClientID", j)
             = Attributed(prev[1].result, "client", data.clients, "ClientID", j)
    /\ OthersUnchanged

(***************************************************************************)
(* Exceptions.                                                             *)
(***************************************************************************)
\* the report has a finding on the given field of an entity of the kind
FindingOn(etype, field) ==
  \E k \in 1..Len(Reported) :
    HasField(Reported[k], field) /\ Reported[k].entityType = etype

\* C20: a call of validateDataSet never throws; on a dataset in which an
\* entity lacks a list field it returns a report that holds a finding on
\* that field.
C20_NeverThrows ==
  /\ pc # "thrown"
  /\ pc = "done" =>
       /\ SomeWithout(data.workers, "Skills") => FindingOn("worker", "Skills")
       /\ SomeWithout(data.workers, "AvailableSlots")
            => FindingOn("worker", "AvailableSlots")
       /\ SomeWithout(data.tasks, "RequiredSkills")
            => FindingOn("task", "RequiredSkills")
       /\ SomeWithout(data.tasks, "PreferredPhases")
            => FindingOn("task", "PreferredPhases")
       /\ SomeWithout(data.clients, "RequestedTaskIDs")
            => FindingOn("client", "RequestedTaskIDs")

(***************************************************************************)
(* Order and independence of the rules.                                    *)
(***************************************************************************)
\* the findings of each rule on the dataset alone, in the order missing
\* fields, duplicate IDs, malformed lists, out-of-range values, malformed
\* JSON, unknown references, overloaded workers, phase saturation, skill
\* coverage, concurrency feasibility
RulesInOrder(d) ==
  <<validateMissingRequiredColumns(d), validateDuplicateIDs(d),
    validateMalformedLists(d), validateOutOfRangeValues(d),
    validateBrokenJSON(d), validateUnknownReferences(d),
    validateOverloadedWorkers(d), validatePhaseSlotSaturation(d),
    validateSkillCoverageMatrix(d), validateMaxConcurrencyFeasibility(d)>>

\* the rules (by position in RulesInOrder) that have findings of type t
RulesWith(d, t) ==
  {n \in 1..10 : \E k \in 1..Len(RulesInOrder(d)[n]) : RulesInOrder(d)[n][k].type = t}

\* C21: the errors of the report are the errors among the findings of the ten
\* rules, each applied to the dataset alone and taken in the fixed order of
\* the rules, and the warnings are the warnings among them in the same order.
C21_RulesInOrder ==
  pc = "done" =>
    LET fs == Concat(RulesInOrder(data)) IN
      /\ result.errors = SelectSeq(fs, LAMBDA f : f.type = "error")
      /\ result.warnings = SelectSeq(fs, LAMBDA f : f.type = "warning")

\* a report with errors of at least four rules, the missing-field and the
\* duplicate-ID rule among them, and warnings of three rules
C21_Witness ==
  /\ pc = "done"
  /\ {1, 2} \subseteq RulesWith(data, "error")
  /\ Cardinality(RulesWith(data, "error")) >= 4
  /\ Cardinality(RulesWith(data, "warning")) >= 3

(***************************************************************************)
(* The workflow page (src/unnamed/part_001): its parser results, its own   *)
(* validateDataSet, the data grid and the four-step navigation.            *)
(***************************************************************************)

\* the number of uploads that can be awaiting their files at once
MaxUploads == 2

\* the values that Math.random() returns in the model
Randoms == {"0.25", "0.75"}

\* String.prototype.toLowerCase on the letters the model's texts contain
LowerChar(c) ==
  CASE c = "A" -> "a" [] c = "B" -> "b" [] c = "C" -> "c" [] c = "G" -> "g"
    [] c = "J" -> "j" [] c = "K" -> "k" [] c = "O" -> "o" [] c = "Q" -> "q"
    [] c = "T" -> "t" [] c = "W" -> "w" [] c = "Z" -> "z"
    [] OTHER -> c

RECURSIVE toLowerCase(_)
toLowerCase(s) ==
  IF s = "" THEN ""
  ELSE LowerChar(SubSeq(s, 1, 1)) \o toLowerCase(SubSeq(s, 2, Len(s)))

\* String.prototype.includes
includes(s, t) ==
  \E i \in 1..(Len(s) - Len(t) + 1) : SubSeq(s, i, i + Len(t) - 1) = t

\* Array.prototype.join(',') on a list of texts
RECURSIVE join(_)
join(xs) ==
  IF xs = <<>> THEN ""
  ELSE IF Len(xs) = 1 THEN xs[1]
  ELSE xs[1] \o "," \o join(Tail(xs))

NumberFields == {"PriorityLevel", "Duration", "MaxLoadPerPhase", "MaxConcurrent"}

StringListFields == {"RequestedTaskIDs", "Skills", "RequiredSkills"}

NumberListFields == {"AvailableSlots", "PreferredPhases"}

\* String(value) for the value of a field of an entity
String(field, v) ==
  CASE field \in NumberFields -> NumberToString(v)
    [] field \in StringListFields -> join(v)
    [] field \in NumberListFields ->
         join([k \in 1..Len(v) |-> NumberToString(v[k])])
    [] field = "AttributesJSON" -> "[object Object]"
    [] OTHER -> v

\* parseInt on the texts of the model: the digits at the start of the text
\* after an optional sign, NaN when there are none
DigitChars == "0123456789"

IsDigit(c) == \E d \in 1..10 : SubSeq(DigitChars, d, d) = c

DigitValue(c) == (CHOOSE d \in 1..10 : SubSeq(DigitChars, d, d) = c) - 1

RECURSIVE LeadingDigits(_, _)
LeadingDigits(s, acc) ==
  IF s # "" /\ IsDigit(SubSeq(s, 1, 1))
  THEN LeadingDigits(SubSeq(s, 2, Len(s)), acc * 10 + DigitValue(SubSeq(s, 1, 1)))
  ELSE acc

RECURSIVE trimStart(_)
trimStart(s) ==
  IF s # "" /\ SubSeq(s, 1, 1) = " " THEN trimStart(SubSeq(s, 2, Len(s))) ELSE s

parseInt(text) ==
  LET s == trimStart(text)
      neg == s # "" /\ SubSeq(s, 1, 1) = "-"
      body == IF s # "" /\ SubSeq(s, 1, 1) \in {"-", "+"}
              THEN SubSeq(s, 2, Len(s)) ELSE s
  IN  IF body = "" \/ ~IsDigit(SubSeq(body, 1, 1)) THEN NaN
      ELSE IF neg THEN 0 - LeadingDigits(body, 0) ELSE LeadingDigits(body, 0)

\* the page's validateDataSet: the findings about one client, one worker, one
\* task; r is the value Math.random() returns for the entity
pageClientFindings(client, r) ==
  (IF client.ClientID = ""
   THEN <<[id |-> "missing-client-id-" \o r, type |-> "error",
           message |-> "Missing ClientID", field |-> "ClientID",
           entityType |-> "client", entityId |-> "Unknown",
           severity |-> "high"]>>
   ELSE <<>>)
  \o
  (IF client.ClientName = ""
   THEN <<[id |-> "missing-client-name-" \o client.ClientID, type |-> "error",
           message |-> "Missing ClientName", field |-> "ClientName",
           entityType |-> "client", entityId |-> client.ClientID,
           severity |-> "high"]>>
   ELSE <<>>)
  \o
  (IF client.PriorityLevel < 1 \/ client.PriorityLevel > 5
   THEN <<[id |-> "invalid-priority-" \o client.ClientID, type |-> "error",
           message |-> "PriorityLevel must be 1-5, got "
                         \o NumberToString(client.PriorityLevel),
           field |-> "PriorityLevel",
           entityType |-> "client", entityId |-> client.ClientID,
           severity |-> "medium"]>>
   ELSE <<>>)

pageWorkerFindings(worker, r) ==
  (IF worker.WorkerID = ""
   THEN <<[id |-> "missing-worker-id-" \o r, type |-> "error",
           message |-> "Missing WorkerID", field |-> "WorkerID",
           entityType |-> "worker", entityId |-> "Unknown",
           severity |-> "high"]>>
   ELSE <<>>)
  \o
  (IF worker.WorkerName = ""
   THEN <<[id |-> "missing-worker-name-" \o worker.WorkerID, type |-> "error",
           message |-> "Missing WorkerName", field |-> "WorkerName",
           entityType |-> "worker", entityId |-> worker.WorkerID,
           severity |-> "high"]>>
   ELSE <<>>)
  \o
  (IF Len(worker.Skills) = 0
   THEN <<[id |-> "no-skills-" \o worker.WorkerID, type |-> "warning",
           message |-> "Worker has no skills listed", field |-> "Skills",
           entityType |-> "worker", entityId |-> worker.WorkerID,
           severity |-> "medium"]>>
   ELSE <<>>)
  \o
  (IF Len(worker.AvailableSlots) = 0
   THEN <<[id |-> "no-slots-" \o worker.WorkerID, type |-> "error",
           message |-> "Worker has no available slots",
           field |-> "AvailableSlots",
           entityType |-> "worker", entityId |-> worker.WorkerID,
           severity |-> "high"]>>
   ELSE <<>>)

pageTaskFindings(task, r) ==
  (IF task.TaskID = ""
   THEN <<[id |-> "missing-task-id-" \o r, type |-> "error",
           message |-> "Missing TaskID", field |-> "TaskID",
           entityType |-> "task", entityId |-> "Unknown",
           severity |-> "high"]>>
   ELSE <<>>)
  \o
  (IF task.TaskName = ""
   THEN <<[id |-> "missing-task-name-" \o task.TaskID, type |-> "error",
           message |-> "Missing TaskName", field |-> "TaskName",
           entityType |-> "task", entityId |-> task.TaskID,
           severity |-> "high"]>>
   ELSE <<>>)
  \o
  (IF task.Duration < 1
   THEN <<[id |-> "invalid-duration-" \o task.TaskID, type |-> "error",
           message |-> "Duration must be at least 1, got "
                         \o NumberToString(task.Duration),
           field |-> "Duration",
           entityType |-> "task", entityId |-> task.TaskID,
           severity |-> "medium"]>>
   ELSE <<>>)
  \o
  (IF Len(task.RequiredSkills) = 0
   THEN <<[id |-> "no-required-skills-" \o task.TaskID, type |-> "warning",
           message |-> "Task has no required skills",
           field |-> "RequiredSkills",
           entityType |-> "task", entityId |-> task.TaskID,
           severity |-> "medium"]>>
   ELSE <<>>)

\* the cross-reference checks of the page's validateDataSet
pageReferenceFindings(d) ==
  LET taskIDs == {d.tasks[i].TaskID : i \in 1..Len(d.tasks)}
      ofClient(client) ==
        Concat([k \in 1..Len(client.RequestedTaskIDs) |->
          LET taskID == client.RequestedTaskIDs[k]
          IN  IF taskID \notin taskIDs
              THEN <<[id |-> "invalid-task-ref-" \o client.ClientID \o "-"
                               \o taskID,
                      type |-> "error",
                      message |-> "References non-existent task: " \o taskID,
                      field |-> "RequestedTaskIDs",
                      entityType |-> "client", entityId |-> client.ClientID,
                      severity |-> "high"]>>
              ELSE <<>>])
  IN  Concat([i \in 1..Len(d.clients) |-> ofClient(d.clients[i])])

pageSkillFindings(d) ==
  LET pageAvailableSkills ==
        UNION {{d.workers[i].Skills[k] : k \in 1..Len(d.workers[i].Skills)} :
                 i \in 1..Len(d.workers)}
      ofTask(task) ==
        Concat([k \in 1..Len(task.RequiredSkills) |->
          LET skill == task.RequiredSkills[k]
          IN  IF skill \notin pageAvailableSkills
              THEN <<[id |-> "unavailable-skill-" \o task.TaskID \o "-"
                               \o skill,
                      type |-> "warning",
                      message |-> "Requires skill '" \o skill
                                    \o "' but no worker has it",
                      field |-> "RequiredSkills",
                      entityType |-> "task", entityId |-> task.TaskID,
                      severity |-> "high"]>>
              ELSE <<>>])
  IN  Concat([i \in 1..Len(d.tasks) |-> ofTask(d.tasks[i])])

\* the page's validateDataSet, where rnd[type][i] is what Math.random() returns
\* when it is called for entity i of the collection
pageValidateDataSet(d, rnd) ==
  LET errors ==
        Concat([i \in 1..Len(d.clients) |->
                  pageClientFindings(d.clients[i], rnd.clients[i])])
        \o Concat([i \in 1..Len(d.workers) |->
                     pageWorkerFindings(d.workers[i], rnd.workers[i])])
        \o Concat([i \in 1..Len(d.tasks) |->
                     pageTaskFindings(d.tasks[i], rnd.tasks[i])])
        \o pageReferenceFindings(d)
        \o pageSkillFindings(d)
  IN  [isValid |-> Len(SelectSeq(errors, LAMBDA e : e.type = "error")) = 0,
       errors |-> SelectSeq(errors, LAMBDA e : e.type = "error"),
       warnings |-> SelectSeq(errors, LAMBDA e : e.type = "warning")]

\* the values Math.random() can return during one validation of d: one per
\* entity without an ID (the entities with an ID draw none, written as the
\* first value)
RandomDraws(d) ==
  LET draws(es, idField) ==
        {f \in [1..Len(es) -> Randoms] :
           \A i \in 1..Len(es) :
             es[i][idField] # "" => f[i] = CHOOSE r \in Randoms : TRUE}
  IN  {[clients |-> c, workers |-> w, tasks |-> t] :
         c \in draws(d.clients, "ClientID"),
         w \in draws(d.workers, "WorkerID"),
         t \in draws(d.tasks, "TaskID")}

\* String.prototype.split for a separator of one character
RECURSIVE split(_, _)
split(s, sep) ==
  IF ~includes(s, sep) THEN <<s>>
  ELSE LET i == CHOOSE i \in 1..Len(s) :
                   /\ SubSeq(s, i, i) = sep
                   /\ \A j \in 1..(i - 1) : SubSeq(s, j, j) # sep
       IN  <<SubSeq(s, 1, i - 1)>> \o split(SubSeq(s, i + 1, Len(s)), sep)

RECURSIVE trimEnd(_)
trimEnd(s) ==
  IF s # "" /\ SubSeq(s, Len(s), Len(s)) = " "
  THEN trimEnd(SubSeq(s, 1, Len(s) - 1)) ELSE s

trim(s) == trimEnd(trimStart(s))

\* the parse results (ParseResult) of the files of the model
PageClient(id, name, priority, requested) ==
  [Client(id, priority, requested) EXCEPT !.ClientName = name]

ParseResult(type, rows) == [type |-> type, data |-> rows]

ClientsFile ==
  ParseResult("clients", <<PageClient("C1", "Acme", 1, <<>>),
                           PageClient("C2", "Bolt", 3, <<>>)>>)

BrokenClientsFile ==
  ParseResult("clients", <<PageClient("", "Zoe", 7, <<"T9">>)>>)

WorkersFile == ParseResult("workers", <<Worker("W1", <<>>, <<1>>, 1)>>)

TasksFile == ParseResult("tasks", <<Task("T1", 1, <<"s1">>, <<>>, 1)>>)

EmptyFile(type) == ParseResult(type, <<>>)

\* the batches of files that are dropped on the page
Batches ==
  {<<ClientsFile>>,
   <<BrokenClientsFile, WorkersFile>>,
   <<BrokenClientsFile, ClientsFile>>,
   <<WorkersFile, EmptyFile("workers"), TasksFile>>,
   <<EmptyFile("tasks")>>}

\* handleFileUpload: the dataset after results.forEach has gone through the
\* first k results, each result with rows overwriting the collection of its
\* type
RECURSIVE organize(_, _)
organize(results, k) ==
  IF k = 0 THEN [clients |-> <<>>, workers |-> <<>>, tasks |-> <<>>]
  ELSE LET r == results[k]
           before == organize(results, k - 1)
       IN  IF Len(r.data) > 0 THEN [before EXCEPT ![r.type] = r.data]
           ELSE before

\* variant: the first file of a type with rows wins
newDataSet_FirstFile(results) ==
  LET first(type) ==
        LET with == {k \in 1..Len(results) :
                       results[k].type = type /\ Len(results[k].data) > 0}
        IN  IF with = {} THEN <<>>
            ELSE results[CHOOSE k \in with : \A j \in with : j >= k].data
  IN  [clients |-> first("clients"), workers |-> first("workers"),
       tasks |-> first("tasks")]

\* handleFileUpload: the dataset organised from the parse results
newDataSet(results) == organize(results, Len(results))

Steps == <<"upload", "validate", "rules", "export">>

StepIndex(stepId) == CHOOSE k \in 1..Len(Steps) : Steps[k] = stepId

\* getStepStatus
getStepStatus(stepId, current) ==
  IF StepIndex(stepId) < StepIndex(current) THEN "complete"
  ELSE IF StepIndex(stepId) = StepIndex(current) THEN "current"
  ELSE "upcoming"

\* the columns of DataGrid that are editable
EditableFields(type) ==
  CASE type = "clients" ->
         {"ClientName", "PriorityLevel", "RequestedTaskIDs", "GroupTag"}
    [] type = "workers" ->
         {"WorkerName", "Skills", "AvailableSlots", "MaxLoadPerPhase",
          "WorkerGroup"}
    [] OTHER ->
         {"TaskName", "Category", "Duration", "RequiredSkills",
          "PreferredPhases"}

\* type.slice(0, -1) + 'ID': the key under which saveEdit looks up the ID
IdKey(type) == SubSeq(type, 1, Len(type) - 1) \o "ID"

\* item[key], where <<>> stands for undefined
Prop(item, key) == IF key \in DOMAIN item THEN <<item[key]>> ELSE <<>>

\* DataGrid.filteredData
Matches(item, term) ==
  \/ term = ""
  \/ \E f \in DOMAIN item :
       includes(toLowerCase(String(f, item[f])), toLowerCase(term))

filteredData(rows, term) == SelectSeq(rows, LAMBDA item : Matches(item, term))

\* the position in rows of the entity that row rowIndex (0-based) of the
\* filtered grid shows
PositionOf(rows, term, rowIndex) ==
  CHOOSE i \in 1..Len(rows) :
    /\ Matches(rows[i], term)
    /\ Cardinality({j \in 1..i : Matches(rows[j], term)}) = rowIndex + 1

\* Array.prototype.findIndex of saveEdit, 0 standing for -1
findIndex(rows, key, wanted) ==
  LET hits == {i \in 1..Len(rows) : Prop(rows[i], key) = wanted}
  IN  IF hits = {} THEN 0 ELSE CHOOSE i \in hits : \A j \in hits : j >= i

\* saveEdit: the value stored for the text in the input
parsedValue(field, editValue) ==
  LET parts == SelectSeq([k \in 1..Len(split(editValue, ",")) |->
                            trim(split(editValue, ",")[k])],
                         LAMBDA v : v # "")
  IN  CASE field \in StringListFields -> parts
        [] field \in NumberListFields ->
             SelectSeq([k \in 1..Len(parts) |-> parseInt(parts[k])],
                       LAMBDA v : v # NaN)
        [] field \in NumberFields ->
             IF parseInt(editValue) \in {NaN, 0} THEN 0
             ELSE parseInt(editValue)
        [] OTHER -> editValue

\* a DataGrid is on the page in the validate step for a non-empty collection
Rendered(type, step, d) == step = "validate" /\ Len(d[type]) > 0

\* the texts typed into the search box and into the input of a cell, and the
\* columns that are edited
SearchTerms == {"", "Bolt"}

EditTexts == {"", "3", "Zed"}

EditedFields(type) ==
  CASE type = "clients" -> {"ClientName", "PriorityLevel"}
    [] type = "workers" -> {"Skills"}
    [] OTHER -> {"Duration"}

\* what React keeps of the grids' state when the page shows step2 and d2 next:
\* a DataGrid that stays on the page keeps its state, one that is taken off
\* the page loses it
GridsAfter(step2, d2, replaced) ==
  LET kept(type) == Rendered(type, currentStep, dataSet)
                      /\ Rendered(type, step2, d2)
  IN  /\ editingCell' = [type \in GridTypes |->
                           IF kept(type) THEN editingCell[type] ELSE <<>>]
      /\ searchTerm' = [type \in GridTypes |->
                          IF kept(type) THEN searchTerm[type] ELSE ""]
      /\ shownAtStart' = [type \in GridTypes |->
                            IF kept(type) /\ ~replaced THEN shownAtStart[type]
                            ELSE 0]

\* handleFileUpload up to its first await (handleDrop does not look at
\* isUploading)
StartUpload(files) ==
  /\ currentStep = "upload"
  /\ files \notin uploading
  /\ Cardinality(uploading) < MaxUploads
  /\ uploading' = uploading \union {files}
  /\ UNCHANGED <<dataSet, validationResult, currentStep, editingCell,
                 searchTerm, shownAtStart>>
  /\ UNCHANGED <<engineVars, normalizerVars>>

\* variant: the report on display is left as it is
CompleteUpload_KeepingReport(files) ==
  /\ files \in uploading
  /\ LET d2 == newDataSet(files)
         step2 == IF \E k \in 1..Len(files) : Len(files[k].data) > 0
                  THEN "validate" ELSE currentStep
     IN  /\ dataSet' = d2
         /\ validationResult' = validationResult
         /\ currentStep' = step2
         /\ GridsAfter(step2, d2, TRUE)
  /\ uploading' = uploading \ {files}
  /\ UNCHANGED <<engineVars, normalizerVars>>

\* handleFileUpload after its last await: the files are parsed
CompleteUpload(files) ==
  /\ files \in uploading
  /\ LET d2 == newDataSet(files)
         step2 == IF \E k \in 1..Len(files) : Len(files[k].data) > 0
                  THEN "validate" ELSE currentStep
     IN  /\ dataSet' = d2
         /\ \E rnd \in RandomDraws(d2) :
              validationResult' = pageValidateDataSet(d2, rnd)
         /\ currentStep' = step2
         /\ GridsAfter(step2, d2, TRUE)
  /\ uploading' = uploading \ {files}
  /\ UNCHANGED <<engineVars, normalizerVars>>

\* handleDataChange
handleDataChange(entityType, updatedData) ==
  LET d2 == [dataSet EXCEPT ![entityType] = updatedData]
  IN  /\ dataSet' = d2
      /\ \E rnd \in RandomDraws(d2) :
           validationResult' = pageValidateDataSet(d2, rnd)

\* DataGrid: a text is typed into the search box
SetSearchTerm(type, term) ==
  /\ Rendered(type, currentStep, dataSet)
  /\ searchTerm' = [searchTerm EXCEPT ![type] = term]
  /\ UNCHANGED <<dataSet, validationResult, currentStep, uploading,
                 editingCell, shownAtStart>>
  /\ UNCHANGED <<engineVars, normalizerVars>>

\* DataGrid.startEditing, from a click on a cell that is not being edited
startEditing(type, rowIndex, field) ==
  /\ Rendered(type, currentStep, dataSet)
  /\ rowIndex < Len(filteredData(dataSet[type], searchTerm[type]))
  /\ editingCell[type] # <<[rowIndex |-> rowIndex, field |-> field]>>
  /\ field \in EditableFields(type)
  /\ editingCell' = [editingCell EXCEPT
                       ![type] = <<[rowIndex |-> rowIndex, field |-> field]>>]
  /\ shownAtStart' = [shownAtStart EXCEPT
                        ![type] = PositionOf(dataSet[type], searchTerm[type],
                                             rowIndex)]
  /\ UNCHANGED <<dataSet, validationResult, currentStep, uploading,
                 searchTerm>>
  /\ UNCHANGED <<engineVars, normalizerVars>>

\* DataGrid.saveEdit with editValue in the input; the input and its buttons
\* are on the page only while the grid has a row with the index of the cell
saveEdit(type, editValue) ==
  /\ Rendered(type, currentStep, dataSet)
  /\ editingCell[type] # <<>>
  /\ LET rowIndex == editingCell[type][1].rowIndex
         field == editingCell[type][1].field
         rows == dataSet[type]
         shown == filteredData(rows, searchTerm[type])
     IN  /\ rowIndex < Len(shown)
         /\ LET itemIndex == findIndex(rows, IdKey(type),
                                       Prop(shown[rowIndex + 1], IdKey(type)))
            IN  IF itemIndex # 0
                THEN handleDataChange(type,
                       [rows EXCEPT ![itemIndex][field] =
                                      parsedValue(field, editValue)])
                ELSE UNCHANGED <<dataSet, validationResult>>
  /\ editingCell' = [editingCell EXCEPT ![type] = <<>>]
  /\ shownAtStart' = [shownAtStart EXCEPT ![type] = 0]
  /\ UNCHANGED <<currentStep, uploading, searchTerm>>
  /\ UNCHANGED <<engineVars, normalizerVars>>

\* DataGrid: the cancel button or the Escape key
CancelEdit(type) ==
  /\ Rendered(type, currentStep, dataSet)
  /\ editingCell[type] # <<>>
  /\ editingCell[type][1].rowIndex
       < Len(filteredData(dataSet[type], searchTerm[type]))
  /\ editingCell' = [editingCell EXCEPT ![type] = <<>>]
  /\ shownAtStart' = [shownAtStart EXCEPT ![type] = 0]
  /\ UNCHANGED <<dataSet, validationResult, currentStep, uploading,
                 searchTerm>>
  /\ UNCHANGED <<engineVars, normalizerVars>>

\* setCurrentStep(stepId) from a button of the page
GoTo(stepId) ==
  /\ currentStep' = stepId
  /\ GridsAfter(stepId, dataSet, FALSE)
  /\ UNCHANGED <<dataSet, validationResult, uploading>>
  /\ UNCHANGED <<engineVars, normalizerVars>>

\* a click on a step of the step indicator
ClickStep(stepId) ==
  /\ getStepStatus(stepId, currentStep) = "complete" \/ stepId = "upload"
  /\ GoTo(stepId)

BackToUpload == currentStep = "validate" /\ GoTo("upload")

\* variant: the button is never disabled
ContinueToRules_Unguarded == currentStep = "validate" /\ GoTo("rules")

\* the Continue to Rules button, disabled while the report has errors
ContinueToRules ==
  /\ currentStep = "validate"
  /\ Len(validationResult.errors) = 0
  /\ GoTo("rules")

BackToValidation == currentStep = "rules" /\ GoTo("validate")

ContinueToExport == currentStep = "rules" /\ GoTo("export")

BackToRules == currentStep = "export" /\ GoTo("rules")

InitPage == data = DataSet(<<>>, <<>>, <<>>) /\ Fresh

NextPage ==
  \/ \E files \in Batches : StartUpload(files)
  \/ \E files \in Batches : CompleteUpload(files)
  \/ \E type \in GridTypes, term \in SearchTerms : SetSearchTerm(type, term)
  \/ \E type \in GridTypes :
       \E rowIndex \in 0..(Len(dataSet[type]) - 1), field \in EditedFields(type) :
         startEditing(type, rowIndex, field)
  \/ \E type \in GridTypes, editValue \in EditTexts : saveEdit(type, editValue)
  \/ \E type \in GridTypes : CancelEdit(type)
  \/ \E k \in 1..Len(Steps) : ClickStep(Steps[k])
  \/ BackToUpload
  \/ ContinueToRules
  \/ BackToValidation
  \/ ContinueToExport
  \/ BackToRules

SpecPage == InitPage /\ [][NextPage]_vars

\* C22: whenever the page is at the rules or the export step, the report on
\* display has no errors; and at the validate step the Continue to Rules
\* button can be pressed whenever the report has no errors, whatever its
\* warnings
C22_ErrorsBlockProgression ==
  /\ currentStep \in {"rules", "export"} => validationResult.errors = <<>>
  /\ currentStep = "validate" /\ validationResult.errors = <<>>
       => ENABLED ContinueToRules

\* a report with warnings and no errors has been passed, after an edit in
\* the tasks grid (the file has Duration 1)
C22_Witness ==
  /\ currentStep = "export"
  /\ validationResult.warnings # <<>>
  /\ validationResult.errors = <<>>
  /\ dataSet.tasks # <<>>
  /\ dataSet.tasks[1].Duration = 3

\* C23: the report on display is a report of the dataset on display: what the
\* page's validateDataSet returns for it, for some values of Math.random()
C23_ReportMatchesData ==
  \E rnd \in RandomDraws(dataSet) :
    validationResult = pageValidateDataSet(dataSet, rnd)

\* a cell of an uploaded client without an ID has been edited while another
\* upload is still awaiting its files
C23_Witness ==
  /\ uploading # {}
  /\ dataSet.clients # <<>>
  /\ dataSet.clients[1].ClientID = ""
  /\ dataSet.clients[1].ClientName = "Zed"
  /\ validationResult.errors # <<>>
  /\ validationResult.errors[1].id = "missing-client-id-0.75"

\* the parsed rows of the last file of the type in the batch that has a row
LastWithRows(files, type) ==
  LET with == {k \in 1..Len(files) :
                 files[k].type = type /\ Len(files[k].data) > 0}
  IN  IF with = {} THEN <<>>
      ELSE files[CHOOSE k \in with : \A j \in with : j <= k].data

SomeRows(files) == \E k \in 1..Len(files) : Len(files[k].data) > 0

\* C30: when handleFileUpload completes, each collection of the dataset is the
\* parsed rows of the last file of its type in the batch that has a row, and
\* empty without such a file, whatever was loaded before; the step is set to
\* 'validate' when some file of the batch has rows and is left as it is
\* otherwise
C30_UploadReplacesDataSet ==
  [][\A files \in Batches :
       CompleteUpload(files) =>
         /\ \A type \in GridTypes : dataSet'[type] = LastWithRows(files, type)
         /\ SomeRows(files) => currentStep' = "validate"
         /\ ~SomeRows(files) => currentStep' = currentStep]_vars

\* a batch without rows has completed after a batch with rows: the page is at
\* the validate step and nothing of the earlier dataset is left
C30_Witness ==
  /\ currentStep = "validate"
  /\ dataSet = [clients |-> <<>>, workers |-> <<>>, tasks |-> <<>>]
  /\ uploading = {}

\* C29: saving a cell edit changes exactly the edited field of the entity that
\* the row showed when editing started, and no other entity of the collection
C29_SaveEditsShownEntity ==
  [][\A type \in GridTypes, editValue \in EditTexts :
       saveEdit(type, editValue) /\ shownAtStart[type] # 0 =>
         dataSet'[type] =
           [dataSet[type] EXCEPT
              ![shownAtStart[type]][editingCell[type][1].field] =
                 parsedValue(editingCell[type][1].field, editValue)]]_vars

\* the report has a skill-coverage error for the task: one with the task's ID
\* and one of its required skills
HasCoverageError(r, task) ==
  \E k \in 1..Len(r.errors), j \in 1..Len(task.RequiredSkills) :
    /\ r.errors[k].id = "missing-skill-" \o task.TaskID \o "-"
                          \o task.RequiredSkills[j]
    /\ r.errors[k].entityType = "task"
    /\ r.errors[k].entityId = task.TaskID
    /\ r.errors[k].field = "RequiredSkills"

\* the workers that hold every required skill of the task
QualifiedFor(d, task) ==
  {i \in 1..Len(d.workers) :
     \A j \in 1..Len(task.RequiredSkills) :
       \E k \in 1..Len(d.workers[i].Skills) :
         d.workers[i].Skills[k] = task.RequiredSkills[j]}

\* the report has the concurrency warning of a task with this ID, this
\* MaxConcurrent and n qualified workers
HasConcurrencyWarning(r, task, n) ==
  \E k \in 1..Len(r.warnings) :
    /\ r.warnings[k].id = "concurrency-infeasible-" \o task.TaskID
    /\ r.warnings[k].entityType = "task"
    /\ r.warnings[k].entityId = task.TaskID
    /\ r.warnings[k].field = "MaxConcurrent"
    /\ r.warnings[k].message =
         "MaxConcurrent (" \o ToString(task.MaxConcurrent)
           \o ") exceeds qualified workers (" \o ToString(n) \o ")"

\* C26: for every task with MaxConcurrent >= 1 for which the report has a
\* skill-coverage error, no worker is qualified and the report has the
\* concurrency warning for the task as well
C26_CoverageGapIsInfeasible ==
  pc = "done" =>
    \A i \in 1..Len(data.tasks) :
      data.tasks[i].MaxConcurrent >= 1 /\ HasCoverageError(result, data.tasks[i])
        => /\ QualifiedFor(data, data.tasks[i]) = {}
           /\ HasConcurrencyWarning(result, data.tasks[i], 0)

\* a task asks for two skills, one of which a worker holds, and for one
\* worker at a time
C26_Witness ==
  /\ pc = "done"
  /\ \E i \in 1..Len(data.tasks) :
       /\ data.tasks[i].MaxConcurrent = 1
       /\ data.tasks[i].RequiredSkills = <<"a", "b">>
       /\ HasCoverageError(result, data.tasks[i])
       /\ HasConcurrencyWarning(result, data.tasks[i], 0)
  /\ \E w \in 1..Len(data.workers) : data.workers[w].Skills = <<"a">>

\* the dataset without its entities that have an empty ID
WithIDs(d) ==
  [clients |-> SelectSeq(d.clients, LAMBDA c : c.ClientID # ""),
   workers |-> SelectSeq(d.workers, LAMBDA w : w.WorkerID # ""),
   tasks |-> SelectSeq(d.tasks, LAMBDA t : t.TaskID # "")]

\* the duplicate-ID errors of the report, in its order
DuplicatesReported ==
  SelectSeq(result.errors, LAMBDA f :
    "field" \in DOMAIN f /\ f.message = "Duplicate " \o f.field \o ": " \o f.entityId)

\* the entity at position i of es has an empty ID and the report has, about
\* its ID, one finding: the missing-field error that names it by its row
OnlyReportedMissing(es, etype, idField, i) ==
  es[i][idField] = "" =>
    LET about == {k \in 1..Len(result.errors) :
                    /\ HasField(result.errors[k], idField)
                    /\ result.errors[k].entityType = etype
                    /\ result.errors[k].entityId \in {"", "Row " \o ToString(i)}}
    IN  /\ Cardinality(about) = 1
        /\ \A k \in about :
             /\ result.errors[k].message = "Missing required field: " \o idField
             /\ result.errors[k].entityId = "Row " \o ToString(i)

\* C27: the duplicate-ID errors of a report are those of the dataset without
\* its entities that have an empty ID, none of them names the empty ID, and
\* about the ID of such an entity the report has the missing-field error and
\* nothing else
C27_EmptyIdsNotInDuplicateDetection ==
  pc = "done" =>
    /\ DuplicatesReported = validateDuplicateIDs(WithIDs(data))
    /\ \A k \in 1..Len(DuplicatesReported) : DuplicatesReported[k].entityId # ""
    /\ \A i \in 1..Len(data.clients) :
         OnlyReportedMissing(data.clients, "client", "ClientID", i)
    /\ \A i \in 1..Len(data.workers) :
         OnlyReportedMissing(data.workers, "worker", "WorkerID", i)
    /\ \A i \in 1..Len(data.tasks) :
         OnlyReportedMissing(data.tasks, "task", "TaskID", i)

\* two clients without an ID around two clients that share one
C27_Witness ==
  /\ pc = "done"
  /\ Len(data.clients) = 3
  /\ data.clients[1].ClientID = ""
  /\ data.clients[2].ClientID = "C1"
  /\ data.clients[3].ClientID = ""
  /\ Len(data.tasks) = 2
  /\ data.tasks[1].TaskID = "T1"
  /\ data.tasks[2].TaskID = "T1"
  /\ Len(DuplicatesReported) = 1

\* the dataset with the task as its only task
WithOnlyTask(d, task) == [d EXCEPT !.tasks = <<task>>]

\* C28: a task without required skills has its concurrency warning (with
\* every worker counted as qualified) exactly when its MaxConcurrent exceeds
\* the number of workers, and the coverage rule has no error for it; in a
\* dataset without workers every task with MaxConcurrent >= 1 has its
\* concurrency warning
C28_EmptyRequiredSkills ==
  pc = "done" =>
    /\ \A i \in 1..Len(data.tasks) :
         data.tasks[i].RequiredSkills = <<>> =>
           /\ HasConcurrencyWarning(result, data.tasks[i], Len(data.workers))
                <=> data.tasks[i].MaxConcurrent > Len(data.workers)
           /\ validateSkillCoverageMatrix(WithOnlyTask(data, data.tasks[i])) = <<>>
           /\ ~HasCoverageError(result, data.tasks[i])
    /\ (\A i \in 1..Len(data.tasks) : data.tasks[i].RequiredSkills = <<>>)
         => \A k \in 1..Len(result.errors) :
              HasField(result.errors[k], "RequiredSkills")
                => result.errors[k].message
                     = "Missing required field: RequiredSkills"
    /\ data.workers = <<>> =>
         \A i \in 1..Len(data.tasks) :
           data.tasks[i].MaxConcurrent >= 1
             => HasConcurrencyWarning(result, data.tasks[i], 0)

\* two workers, neither with a skill; a task without required skills that
\* wants three at a time is warned about, one that wants two is not
C28_Witness ==
  /\ pc = "done"
  /\ Len(data.workers) = 2
  /\ \A w \in 1..Len(data.workers) : data.workers[w].Skills = <<>>
  /\ Len(data.tasks) = 2
  /\ data.tasks[1].RequiredSkills = <<>> /\ data.tasks[1].MaxConcurrent = 3
  /\ data.tasks[2].RequiredSkills = <<>> /\ data.tasks[2].MaxConcurrent = 2
  /\ Len(result.warnings) = 1

(***************************************************************************)
(* The record normalizer: the two parseFile of the repository, the first   *)
(* with parseClient and parseTask, the second with parseArrayField,        *)
(* parseNumberArrayField and parseJSONField.                               *)
(***************************************************************************)

\* the number of rows of a file, and the largest phase a cell names
MaxRows == 2

MaxPhase == 3

\* row[key] for use in a test or before ||: a header the row does not have
\* reads as undefined, which is as falsy as the empty text
Cell(row, key) == IF key \in DOMAIN row THEN row[key] ELSE ""

\* row[k1] || row[k2] || ... || fallback
RECURSIVE FirstTruthy(_, _, _)
FirstTruthy(row, keys, fallback) ==
  IF keys = <<>> THEN fallback
  ELSE IF Cell(row, Head(keys)) # "" THEN Cell(row, Head(keys))
  ELSE FirstTruthy(row, Tail(keys), fallback)

\* Number(text) for a cell text: the empty text is 0, a text of digits its
\* value, anything else NaN
Number(text) ==
  LET s == trim(text)
  IN  IF s = "" THEN 0
      ELSE IF \A k \in 1..Len(s) : IsDigit(SubSeq(s, k, k))
      THEN LeadingDigits(s, 0)
      ELSE NaN

\* n || fallback for a number
OrElse(n, fallback) == IF n = NaN \/ n = 0 THEN fallback ELSE n

\* s with every character of chars taken out
RECURSIVE without(_, _)
without(s, chars) ==
  IF s = "" THEN ""
  ELSE (IF SubSeq(s, 1, 1) \in chars THEN "" ELSE SubSeq(s, 1, 1))
         \o without(SubSeq(s, 2, Len(s)), chars)

startsWith(s, c) == s # "" /\ SubSeq(s, 1, 1) = c

endsWith(s, c) == s # "" /\ SubSeq(s, Len(s), Len(s)) = c

\* s.slice(1, -1)
sliceEnds(s) == SubSeq(s, 2, Len(s) - 1)

\* the empty mapping {} and the values of the JSON texts of the model
EmptyMapping == [kind |-> "object", keys |-> {}]

JSONValues ==
  [text \in {"{}", "{\"vip\":true}", "[1]"} |->
     CASE text = "{}" -> EmptyMapping
       [] text = "{\"vip\":true}" -> [kind |-> "object", keys |-> {"vip"}]
       [] OTHER -> [kind |-> "array", keys |-> {"0"}]]

\* JSON.parse(text) throws a SyntaxError
JSONParseThrows(text) == text \notin DOMAIN JSONValues

\* text.split(',').map(s => s.trim()).filter(s => s)
splitList(text) ==
  SelectSeq([k \in 1..Len(split(text, ",")) |-> trim(split(text, ",")[k])],
            LAMBDA v : v # "")

\* ....map(s => parseInt(s.trim())).filter(n => !isNaN(n)) on a text
splitNumbers(text) ==
  SelectSeq([k \in 1..Len(split(text, ",")) |->
               parseInt(trim(split(text, ",")[k]))],
            LAMBDA n : n # NaN)

\* parseClient(raw, index, errors): the client and the errors it pushes
parseClient(raw, index) ==
  LET text == Cell(raw, "AttributesJSON")
      thrown == text # "" /\ JSONParseThrows(text)
  IN  [row |->
         [ClientID |-> trim(Cell(raw, "ClientID")),
          ClientName |-> trim(Cell(raw, "ClientName")),
          PriorityLevel |-> OrElse(Number(Cell(raw, "PriorityLevel")), 1),
          RequestedTaskIDs |-> splitList(Cell(raw, "RequestedTaskIDs")),
          GroupTag |-> trim(Cell(raw, "GroupTag")),
          AttributesJSON |-> IF text = "" \/ thrown THEN EmptyMapping
                             ELSE JSONValues[text]],
       errors |->
         IF thrown
         THEN <<"Row " \o ToString(index + 1) \o ": Invalid JSON in AttributesJSON">>
         ELSE <<>>]

\* parseTask: the phases of a PreferredPhases text
preferredPhases(text) ==
  LET str == trim(text)
      ends == [k \in 1..Len(split(str, "-")) |-> parseInt(trim(split(str, "-")[k]))]
  IN  IF text = "" THEN <<>>
      ELSE IF includes(str, "-")
      THEN \* for (let i = start; i <= end; i++); a comparison with NaN or
           \* undefined is false
           IF Len(ends) < 2 \/ ends[1] = NaN \/ ends[2] = NaN \/ ends[1] > ends[2]
           THEN <<>>
           ELSE [k \in 1..(ends[2] - ends[1] + 1) |-> ends[1] + k - 1]
      ELSE splitNumbers(without(str, {"[", "]"}))

\* parseTask(raw, index, errors)
parseTask(raw, index) ==
  [row |->
     [TaskID |-> trim(Cell(raw, "TaskID")),
      TaskName |-> trim(Cell(raw, "TaskName")),
      Category |-> trim(Cell(raw, "Category")),
      Duration |-> OrElse(Number(Cell(raw, "Duration")), 1),
      RequiredSkills |-> splitList(Cell(raw, "RequiredSkills")),
      PreferredPhases |-> preferredPhases(Cell(raw, "PreferredPhases")),
      MaxConcurrent |-> OrElse(Number(Cell(raw, "MaxConcurrent")), 1)],
   errors |-> <<>>]

\* the text without its outer quotes and its outer brackets, as the two
\* array helpers clean it
cleaned(value) ==
  LET t == trim(value)
      unquoted == IF (startsWith(t, "\"") /\ endsWith(t, "\""))
                       \/ (startsWith(t, "'") /\ endsWith(t, "'"))
                  THEN sliceEnds(t) ELSE t
      opened == IF startsWith(unquoted, "[") THEN SubSeq(unquoted, 2, Len(unquoted))
                ELSE unquoted
      closed == IF endsWith(opened, "]") THEN SubSeq(opened, 1, Len(opened) - 1)
                ELSE opened
  IN  trim(closed)

\* item.replace(/^["']|["']$/g, '')
unquote(item) ==
  LET a == IF startsWith(item, "\"") \/ startsWith(item, "'")
           THEN SubSeq(item, 2, Len(item)) ELSE item
  IN  IF endsWith(a, "\"") \/ endsWith(a, "'") THEN SubSeq(a, 1, Len(a) - 1)
      ELSE a

parseArrayField(value) ==
  IF trim(value) = "" \/ cleaned(value) = "" THEN <<>>
  ELSE SelectSeq([k \in 1..Len(split(cleaned(value), ",")) |->
                    unquote(trim(split(cleaned(value), ",")[k]))],
                 LAMBDA item : item # "")

parseNumberArrayField(value) ==
  IF trim(value) = "" \/ cleaned(value) = "" THEN <<>>
  ELSE splitNumbers(cleaned(value))

\* cleaned.replace(/""/g, '"')
RECURSIVE undouble(_)
undouble(s) ==
  IF Len(s) < 2 THEN s
  ELSE IF SubSeq(s, 1, 2) = "\"\"" THEN "\"" \o undouble(SubSeq(s, 3, Len(s)))
  ELSE SubSeq(s, 1, 1) \o undouble(SubSeq(s, 2, Len(s)))

\* parseJSONField: the catch logs to the console and returns {}
parseJSONField(value) ==
  LET t == trim(value)
      text == IF startsWith(t, "\"") /\ endsWith(t, "\"")
              THEN undouble(sliceEnds(t)) ELSE t
  IN  IF t = "" \/ t = "{}" THEN EmptyMapping
      ELSE IF JSONParseThrows(text) THEN EmptyMapping
      ELSE JSONValues[text]

\* the object the second parseFile builds from a row of a clients file and of
\* a tasks file
clientOfRow(row) ==
  [ClientID |-> FirstTruthy(row, <<"ClientID", "clientid", "id">>, ""),
   ClientName |-> FirstTruthy(row, <<"ClientName", "clientname", "name">>, ""),
   PriorityLevel |->
     OrElse(parseInt(FirstTruthy(row, <<"PriorityLevel", "priority">>, "1")), 1),
   RequestedTaskIDs |->
     parseArrayField(FirstTruthy(row, <<"RequestedTaskIDs", "tasks">>, "")),
   GroupTag |-> FirstTruthy(row, <<"GroupTag", "group">>, ""),
   AttributesJSON |-> parseJSONField(FirstTruthy(row, <<"AttributesJSON">>, "{}"))]

taskOfRow(row) ==
  [TaskID |-> FirstTruthy(row, <<"TaskID", "taskid", "id">>, ""),
   TaskName |-> FirstTruthy(row, <<"TaskName", "taskname", "name">>, ""),
   Category |-> FirstTruthy(row, <<"Category", "category">>, ""),
   Duration |-> OrElse(parseInt(FirstTruthy(row, <<"Duration", "duration">>, "1")), 1),
   RequiredSkills |->
     parseArrayField(FirstTruthy(row, <<"RequiredSkills", "skills">>, "")),
   PreferredPhases |->
     parseNumberArrayField(FirstTruthy(row, <<"PreferredPhases", "phases">>, "")),
   MaxConcurrent |->
     OrElse(parseInt(FirstTruthy(row, <<"MaxConcurrent", "concurrent">>, "1")), 1)]

\* the rows of the model: client rows that vary the AttributesJSON cell, task
\* rows that vary the PreferredPhases cell; every row has the standard
\* headers, which mapColumns maps to themselves
RawClient(attributes) ==
  [ClientID |-> "C1", ClientName |-> "Acme", PriorityLevel |-> "3",
   RequestedTaskIDs |-> "T1, T2", GroupTag |-> "G", AttributesJSON |-> attributes]

RawTask(phases) ==
  [TaskID |-> "T1", TaskName |-> "Job", Category |-> "K", Duration |-> "2",
   RequiredSkills |-> "a,b", PreferredPhases |-> phases, MaxConcurrent |-> "1"]

AttributeTexts == {"", "{}", "{\"vip\":true}", "[1]", "{bad", "{'vip':true}"}

RangeText(a, b) == ToString(a) \o "-" \o ToString(b)

PhaseTexts ==
  {RangeText(a, b) : a, b \in 1..MaxPhase} \cup {"", "1,2,3", "[1,2]", " 2 - 3 "}

RawClients ==
  {RawClient(text) : text \in AttributeTexts}
    \cup {Without(RawClient(""), "AttributesJSON")}

RawTasks == {RawTask(text) : text \in PhaseTexts}

InitNormalizer ==
  /\ data = DataSet(<<>>, <<>>, <<>>)
  /\ result = NoResult
  /\ prev = <<>>
  /\ pc = "ready"
  /\ PageFresh
  /\ fileType \in {"clients", "tasks"}
  /\ rawData \in SeqsUpTo(IF fileType = "clients" THEN RawClients ELSE RawTasks,
                          MaxRows)
  /\ parsed = NoParseResult
  /\ parsedBy = "none"

\* the first parseFile (validator.ts:448), from the rows read by Papa or XLSX
parseFile1 ==
  /\ parsedBy = "none"
  /\ parsed' =
       IF Len(rawData) = 0
       THEN [data |-> <<>>,
             errors |-> <<"File appears to be empty or has no valid data.">>]
       ELSE LET each == [i \in 1..Len(rawData) |->
                           IF fileType = "clients"
                           THEN parseClient(rawData[i], i - 1)
                           ELSE parseTask(rawData[i], i - 1)]
            IN  [data |-> [i \in 1..Len(rawData) |-> each[i].row],
                 errors |-> Concat([i \in 1..Len(rawData) |-> each[i].errors])]
  /\ parsedBy' = "parseFile1"
  /\ UNCHANGED <<fileType, rawData>>
  /\ UNCHANGED <<engineVars, pageVars>>

\* the second parseFile (validator.ts:867), from the rows of its parseCSV
parseFile2 ==
  /\ parsedBy = "none"
  /\ parsed' =
       IF Len(rawData) = 0
       THEN [data |-> <<>>, errors |-> <<"File appears to be empty">>]
       ELSE [data |-> [i \in 1..Len(rawData) |->
                         IF fileType = "clients" THEN clientOfRow(rawData[i])
                         ELSE taskOfRow(rawData[i])],
             errors |-> <<>>]
  /\ parsedBy' = "parseFile2"
  /\ UNCHANGED <<fileType, rawData>>
  /\ UNCHANGED <<engineVars, pageVars>>

NextNormalizer == parseFile1 \/ parseFile2

SpecNormalizer == InitNormalizer /\ [][NextNormalizer]_vars

\* the parse errors of the result that name the row (1-based) and AttributesJSON
AttributeErrors(row) ==
  {k \in 1..Len(parsed.errors) :
     /\ includes(parsed.errors[k], "Row " \o ToString(row) \o ":")
     /\ includes(parsed.errors[k], "AttributesJSON")}

\* C24: normalizing client rows returns a client for every row; a row whose
\* AttributesJSON text is not valid JSON gets the empty mapping and exactly one
\* parse error that names the row and AttributesJSON, a row whose text is
\* valid or absent gets no such error
C24_JSONFailureContained ==
  parsedBy # "none" /\ fileType = "clients" =>
    /\ Len(parsed.data) = Len(rawData)
    /\ \A i \in 1..Len(rawData) :
         LET text == Cell(rawData[i], "AttributesJSON")
         IN  IF text # "" /\ JSONParseThrows(text)
             THEN /\ parsed.data[i].AttributesJSON = EmptyMapping
                  /\ Cardinality(AttributeErrors(i)) = 1
             ELSE AttributeErrors(i) = {}

\* C25: normalizing a task row whose PreferredPhases cell is "a-b" with
\* 1 <= a <= b gives the task the phases a, a+1, ..., b
C25_RangeExpansion ==
  parsedBy # "none" /\ fileType = "tasks" =>
    \A i \in 1..Len(rawData), a \in 1..MaxPhase, b \in 1..MaxPhase :
      a <= b /\ Cell(rawData[i], "PreferredPhases") = RangeText(a, b)
        => parsed.data[i].PreferredPhases = [k \in 1..(b - a + 1) |-> a + k - 1]

====
